---- MODULE Spec2Model ----
(***************************************************************************)
(* GSEB textbook processing: the document pipeline of main.py              *)
(* (GSEBPDFProcessor), and the example / exercise question extractors of   *)
(* example_extractor.py and exercise_extractor.py.                         *)
(*                                                                         *)
(* Texts are sequences of words.  The Gujarati words of the source are     *)
(* written in Latin transliteration:                                       *)
(*   samikaran = સમીકરણ   koshtak = કોષ્ટક   aakruti = આકૃતિ               *)
(*   aalekh    = આલેખ     graaph  = ગ્રાફ     rekha   = રેખા                *)
(*   bindu     = બિંદુ     ukel    = ઉકેલ     hal     = હલ                  *)
(*   sankhya   = સંખ્યા    mulya   = મૂલ્ય     chhed   = છેદ                 *)
(*   chitra    = ચિત્ર     udaharan = ઉદાહરણ                                *)
(*   varnan_uplabdh_nathi = "વર્ણન ઉપલબ્ધ નથી" (description not available)  *)
(* Scores are counted in tenths: 2 is 0.2, 4 is 0.4, 3 is 0.3, 10 is 1.0.  *)
(***************************************************************************)
EXTENDS Integers, Sequences, FiniteSets, TLC

VARIABLES
    \* _calculate_image_relevance and its caller
    example_text, image_desc, score, example_phrases, image_phrases,
    \* _enhance_*_with_visual_content: the records, the page's images and
    \* which extractor has run ("no" before the call)
    examples, page_images, enhanced,
    \* process_pdf: the stage and loop position, the rendered page images,
    \* the page list, the call counters, the requests really made, the
    \* chapter analysis, the topics, what process_pdf returned and why
    pc, page_idx, image_idx, rendered_images, pages_data, api_calls, requests,
    chapter_info, topics_list, result, failure,
    \* assign_topics_to_pages: the answer read last
    response_text,
    \* _process_enhanced_vision_response: the names of the localized objects
    \* in the answer of the vision collaborator for the page extracted last
    localized_objects,
    \* extract_examples_from_chapter / extract_exercises_from_chapter: which
    \* of the two runs, the pages of the input document, the position of the
    \* page loop, the records collected and the extractor's call counter
    extractor, json_pages, page_pos, all_records, extractor_calls,
    \* the answer the collaborator gave for the page handled last, and the
    \* requests ("call") and time.sleep(1) calls ("delay") of the loop in order
    last_response, extract_log,
    \* _classify_visual_type: the description handed in, in characters, the
    \* number of pieces it was put together from, and the category returned
    image_description, pieces, visual_category

relVars == <<example_text, image_desc, score, example_phrases, image_phrases>>

resVars == <<examples, page_images, enhanced>>

NULL == "None"

pipeVars == <<pc, page_idx, image_idx, rendered_images, pages_data, api_calls, requests,
              chapter_info, topics_list, result, failure, response_text,
              localized_objects>>

extVars == <<extractor, json_pages, page_pos, all_records, extractor_calls,
             last_response, extract_log>>

clsVars == <<image_description, pieces, visual_category>>

vars == <<relVars, resVars, pipeVars, extVars, clsVars>>

notRelVars == <<resVars, pipeVars, extVars, clsVars>>

notResVars == <<relVars, pipeVars, extVars, clsVars>>

notPipeVars == <<relVars, resVars, extVars, clsVars>>

notExtVars == <<relVars, resVars, pipeVars, clsVars>>

notClsVars == <<relVars, resVars, pipeVars, extVars>>

\* the parts of the state a component does not use stay as they are
RelIdle ==
    /\ example_text = <<>>
    /\ image_desc = <<>>
    /\ example_phrases = 0
    /\ image_phrases = 0
    /\ score = 0

ResIdle ==
    /\ examples = <<>>
    /\ page_images = <<>>
    /\ enhanced = "no"

PipeIdle ==
    /\ pc = "idle"
    /\ page_idx = 0
    /\ image_idx = 0
    /\ rendered_images = 0
    /\ pages_data = <<>>
    /\ api_calls = [vision_api |-> 0, gemini_api |-> 0]
    /\ requests = [vision_api |-> 0, gemini_api |-> 0]
    /\ chapter_info = [chapter_summary |-> <<>>]
    /\ topics_list = <<>>
    /\ result = "running"
    /\ failure = "none"
    /\ response_text = <<>>
    /\ localized_objects = <<>>

ExtIdle ==
    /\ extractor = "none"
    /\ json_pages = <<>>
    /\ page_pos = 0
    /\ all_records = <<>>
    /\ extractor_calls = 0
    /\ last_response = [fence |-> "none", kind |-> "no request", items |-> <<>>]
    /\ extract_log = <<>>

ClsIdle ==
    /\ image_description = <<>>
    /\ pieces = 0
    /\ visual_category = "none"

NotRelIdle == ResIdle /\ PipeIdle /\ ExtIdle /\ ClsIdle

NotResIdle == RelIdle /\ PipeIdle /\ ExtIdle /\ ClsIdle

NotPipeIdle == RelIdle /\ ResIdle /\ ExtIdle /\ ClsIdle

NotExtIdle == RelIdle /\ ResIdle /\ PipeIdle /\ ClsIdle

NotClsIdle == RelIdle /\ ResIdle /\ PipeIdle /\ ExtIdle


(***************************************************************************)
(* Helpers on sequences                                                    *)
(***************************************************************************)
Range(s) == {s[i] : i \in 1..Len(s)}

Min(a, b) == IF a <= b THEN a ELSE b

SeqsUpTo(S, n) == UNION {[1..k -> S] : k \in 0..n}

Digits == {"0", "1", "2", "3", "4", "5", "6", "7", "8", "9"}

Whitespace == {" ", "\n", "\t"}

UpperCase ==
    <<"A", "B", "C", "D", "E", "F", "G", "H", "I", "J", "K", "L", "M",
      "N", "O", "P", "Q", "R", "S", "T", "U", "V", "W", "X", "Y", "Z">>

LowerCase ==
    <<"a", "b", "c", "d", "e", "f", "g", "h", "i", "j", "k", "l", "m",
      "n", "o", "p", "q", "r", "s", "t", "u", "v", "w", "x", "y", "z">>

LowerChar(c) ==
    IF \E i \in 1..Len(UpperCase) : UpperCase[i] = c
    THEN LowerCase[CHOOSE i \in 1..Len(UpperCase) : UpperCase[i] = c]
    ELSE c

\* str.lower()
LowerChars(t) == [i \in 1..Len(t) |-> LowerChar(t[i])]

\* keyword in text
IsSubstring(keyword, t) ==
    \E i \in 0..(Len(t) - Len(keyword)) :
        \A j \in 1..Len(keyword) : t[i + j] = keyword[j]

(***************************************************************************)
(* str.lower(): the Gujarati script has no case, the Latin words do        *)
(***************************************************************************)
Lower(w) ==
    CASE w = "Coordinate" -> "coordinate"
      [] w = "Table" -> "table"
      [] w = "Graph" -> "graph"
      [] OTHER -> w

LowerText(text) == [i \in 1..Len(text) |-> Lower(text[i])]

\* `needle in text`, for a needle that is one word
Contains(text, w) == \E i \in 1..Len(text) : text[i] = w

(***************************************************************************)
(* GSEBExampleExtractor._calculate_image_relevance                         *)
(***************************************************************************)
math_keywords ==
    <<"samikaran", "koshtak", "aakruti", "aalekh", "graaph", "rekha", "bindu",
      "ukel", "hal", "sankhya", "mulya", "chhed", "intersection", "coordinate">>

\* the alternation of ref_pattern, its only capturing group
RefTypeWords == {"koshtak", "aakruti", "chitra", "aalekh"}

\* words matching \d+\.\d+
NumberWords == {"3.1", "5.2"}

\* the characters of the words that hold an equation
Spelling(word) ==
    CASE word = "x+y=5" -> <<"x", "+", "y", "=", "5">>
      [] word = "2x+3=7" -> <<"2", "x", "+", "3", "=", "7">>
      [] OTHER -> <<word>>

\* the index of the first character from i on that is not in chars
RECURSIVE SkipChars(_, _, _)
SkipChars(t, i, chars) ==
    IF i <= Len(t) /\ t[i] \in chars THEN SkipChars(t, i + 1, chars) ELSE i

CharAt(t, i, chars) == i <= Len(t) /\ t[i] \in chars

\* equation_pattern  \d*[xy]\s*[+\-]\s*\d*[xy]\s*=\s*\d+  matched from
\* position i: every starred class is disjoint from what follows it, so the
\* longest run is the only one that can match
EquationPatternAt(t, i) ==
    LET v1 == SkipChars(t, i, Digits)
        op == SkipChars(t, v1 + 1, Whitespace)
        v2 == SkipChars(t, SkipChars(t, op + 1, Whitespace), Digits)
        eq == SkipChars(t, v2 + 1, Whitespace)
        rhs == SkipChars(t, eq + 1, Whitespace)
    IN /\ CharAt(t, v1, {"x", "y"})
       /\ CharAt(t, op, {"+", "-"})
       /\ CharAt(t, v2, {"x", "y"})
       /\ CharAt(t, eq, {"="})
       /\ CharAt(t, rhs, Digits)

EquationPattern(t) == \E i \in 1..Len(t) : EquationPatternAt(t, i)

\* the pattern with one variable term only
EquationPatternOneVariableAt(t, i) ==
    LET v1 == SkipChars(t, i, Digits)
        op == SkipChars(t, v1 + 1, Whitespace)
        n == SkipChars(t, op + 1, Whitespace)
        eq == SkipChars(t, SkipChars(t, n, Digits), Whitespace)
        rhs == SkipChars(t, eq + 1, Whitespace)
    IN /\ CharAt(t, v1, {"x", "y"})
       /\ CharAt(t, op, {"+", "-"})
       /\ CharAt(t, n, Digits)
       /\ CharAt(t, eq, {"="})
       /\ CharAt(t, rhs, Digits)

\* words matching equation_pattern
EquationWords == {word \in {"x+y=5", "2x+3=7"} : EquationPattern(Spelling(word))}

\* re.findall(ref_pattern, text): the pattern has one capturing group, so
\* findall yields the text of that group for every match, in order.
RECURSIVE FindAllRefs(_, _)
FindAllRefs(text, i) ==
    IF i >= Len(text) THEN <<>>
    ELSE IF text[i] \in RefTypeWords /\ text[i + 1] \in NumberWords
         THEN <<text[i]>> \o FindAllRefs(text, i + 2)
         ELSE FindAllRefs(text, i + 1)

\* re.search(equation_pattern, text)
SearchEquation(text) == \E i \in 1..Len(text) : text[i] \in EquationWords

\* the loop over math_keywords: +0.2 for each keyword in both lowered texts
RECURSIVE KeywordScore(_, _, _)
KeywordScore(example_lower, image_desc_lower, k) ==
    IF k > Len(math_keywords) THEN 0
    ELSE (IF Contains(example_lower, math_keywords[k])
             /\ Contains(image_desc_lower, math_keywords[k])
          THEN 2 ELSE 0)
         + KeywordScore(example_lower, image_desc_lower, k + 1)

common_refs(text, desc) ==
    Range(FindAllRefs(text, 1)) \cap Range(FindAllRefs(desc, 1))

RawScore(text, desc) ==
    KeywordScore(LowerText(text), LowerText(desc), 1)
    + Cardinality(common_refs(text, desc)) * 4
    + (IF SearchEquation(text) /\ SearchEquation(desc) THEN 3 ELSE 0)

CalculateImageRelevanceUncapped(text, desc) == RawScore(text, desc)

CalculateImageRelevanceWrapped(text, desc) == RawScore(text, desc) % 10

CalculateImageRelevance(text, desc) == Min(RawScore(text, desc), 10)

(***************************************************************************)
(* The texts handed to the scorer: runs of phrases                         *)
(***************************************************************************)
MaxPhrases == 2

Phrases ==
    { <<"samikaran">>, <<"Coordinate">>, <<"x+y=5">>, <<"2x+3=7">>,
      <<"koshtak", "3.1">>, <<"koshtak", "5.2">>,
      <<"aalekh", "3.1">>, <<"chitra", "3.1">> }

RelInit ==
    /\ example_text = <<>>
    /\ image_desc = <<>>
    /\ example_phrases = 0
    /\ image_phrases = 0
    /\ score = CalculateImageRelevance(<<>>, <<>>)

\* the passage grows by one phrase and the pair is scored again
ExtendExample(ph) ==
    /\ example_phrases < MaxPhrases
    /\ example_text' = example_text \o ph
    /\ example_phrases' = example_phrases + 1
    /\ score' = CalculateImageRelevance(example_text', image_desc)
    /\ UNCHANGED <<image_desc, image_phrases, notRelVars>>

\* the description grows by one phrase and the pair is scored again
ExtendDescription(ph) ==
    /\ image_phrases < MaxPhrases
    /\ image_desc' = image_desc \o ph
    /\ image_phrases' = image_phrases + 1
    /\ score' = CalculateImageRelevance(example_text, image_desc')
    /\ UNCHANGED <<example_text, example_phrases, notRelVars>>

RelNext ==
    \/ \E ph \in Phrases : ExtendExample(ph)
    \/ \E ph \in Phrases : ExtendDescription(ph)

InitRelevance == RelInit /\ NotRelIdle

SpecRelevance == InitRelevance /\ [][RelNext]_vars

(***************************************************************************)
(* _find_matching_visual_description, both variants                        *)
(***************************************************************************)
\* Python's None, as a text no description equals
NoneText == <<"None">>

\* a key the record does not have
NoKey == <<"no such key">>

\* "વર્ણન ઉપલબ્ધ નથી"
DescriptionNotAvailable == <<"varnan_uplabdh_nathi">>

\* re.search(r'\d+\.\d+', visual_reference): the first number, or None
RECURSIVE SearchNumber(_, _)
SearchNumber(visual_reference, i) ==
    IF i > Len(visual_reference) THEN NULL
    ELSE IF visual_reference[i] \in NumberWords THEN visual_reference[i]
         ELSE SearchNumber(visual_reference, i + 1)

\* type_keywords of example_extractor.py
ExampleTypeKeywords(visual_type_lower) ==
    CASE visual_type_lower = "koshtak" -> {"koshtak", "table"}
      [] visual_type_lower = "aakruti" -> {"aakruti", "aalekh", "graph"}
      [] visual_type_lower = "chitra" -> {"chitra", "diagram", "figure"}
      [] OTHER -> {}

\* type_keywords of exercise_extractor.py
ExerciseTypeKeywords(visual_type_lower) ==
    CASE visual_type_lower = "aakruti" -> {"aakruti", "figure", "diagram"}
      [] visual_type_lower = "aalekh" -> {"aalekh", "graph", "chart"}
      [] visual_type_lower = "koshtak" -> {"koshtak", "table"}
      [] OTHER -> {}

TypeKeywords(variant, visual_type_lower) ==
    IF variant = "example" THEN ExampleTypeKeywords(visual_type_lower)
    ELSE ExerciseTypeKeywords(visual_type_lower)

\* ref_number in img_desc and ref_type in img_desc
ExactMatch(visual_reference, img_desc) ==
    /\ Contains(img_desc, SearchNumber(visual_reference, 1))
    /\ Contains(img_desc, visual_reference[1])

\* any(keyword in img_desc.lower() for keyword in keywords)
KeywordMatch(keywords, img_desc) ==
    \E keyword \in keywords : Contains(LowerText(img_desc), keyword)

\* the first index of a loop over the images that returns, 0 when none does
FirstIndex(hits) ==
    IF hits = {} THEN 0 ELSE CHOOSE i \in hits : \A j \in hits : i <= j

\* Method 1: the images whose description holds the number and the type word
ExactHits(visual_reference, images) ==
    IF visual_reference # <<>> /\ SearchNumber(visual_reference, 1) # NULL
    THEN {i \in 1..Len(images) :
            ExactMatch(visual_reference, images[i].educational_description)}
    ELSE {}

\* type-based matching that returns the last candidate that matches
TypeBasedMatchLast(variant, visual_type, images) ==
    LET keywords == TypeKeywords(variant, Lower(visual_type))
        hits == {i \in 1..Len(images) :
                    KeywordMatch(keywords, images[i].educational_description)}
    IN IF hits = {} THEN NoneText
       ELSE images[CHOOSE i \in hits : \A j \in hits : j <= i].educational_description

\* Method 2: type-based matching
TypeBasedMatch(variant, visual_type, images) ==
    LET keywords == TypeKeywords(variant, Lower(visual_type))
        k == FirstIndex({i \in 1..Len(images) :
                KeywordMatch(keywords, images[i].educational_description)})
    IN IF k > 0 THEN images[k].educational_description ELSE NoneText

FindMatchingDescriptionKeywordFirst(variant, visual_reference, visual_type, images) ==
    LET byType == TypeBasedMatch(variant, visual_type, images)
        e == FirstIndex(ExactHits(visual_reference, images))
    IN IF byType # NoneText THEN byType
       ELSE IF e > 0 THEN images[e].educational_description ELSE NoneText

\* Method 1: exact reference matching, then Method 2
FindMatchingVisualDescription(variant, visual_reference, visual_type, images) ==
    LET e == FirstIndex(ExactHits(visual_reference, images))
    IN IF e > 0 THEN images[e].educational_description
       ELSE TypeBasedMatch(variant, visual_type, images)

(***************************************************************************)
(* _enhance_examples_with_visual_content,                                  *)
(* _enhance_exercises_with_visual_content                                  *)
(***************************************************************************)
\* `if matching_desc:` -- None and the empty text are false
Truthy(text) == text # NoneText /\ text # <<>>

EnhanceVisual(variant, visual, images) ==
    LET matching_desc ==
            FindMatchingVisualDescription(variant, visual.reference, visual.type, images)
    IN [visual EXCEPT !.full_description =
            IF Truthy(matching_desc) THEN matching_desc ELSE DescriptionNotAvailable]

EnhanceRecord(variant, record, images) ==
    [record EXCEPT !.mentioned_visuals =
        [v \in 1..Len(record.mentioned_visuals) |->
            EnhanceVisual(variant, record.mentioned_visuals[v], images)]]

\* `if not page_images: return examples` comes first in both variants
EnhanceWithVisualContent(variant, records, images) ==
    IF images = <<>> THEN records
    ELSE [r \in 1..Len(records) |-> EnhanceRecord(variant, records[r], images)]

(***************************************************************************)
(* The records and images handed to the enhancement step                   *)
(***************************************************************************)
MaxImages == 2

MaxExamples == 1

MaxMentions == 2

Descriptions ==
    { <<"koshtak", "3.1">>, <<"Table">>, <<"Graph">>, <<"rekha", "aalekh">> }

\* what the collaborator put in a record's mentioned_visuals
Mentions ==
    { [reference |-> <<"koshtak", "3.1">>, type |-> "koshtak", full_description |-> NoKey],
      [reference |-> <<>>, type |-> "aakruti", full_description |-> NoKey],
      [reference |-> <<"aakruti">>, type |-> "chitra", full_description |-> NoKey],
      [reference |-> <<"aalekh", "5.2">>, type |-> "aalekh", full_description |-> NoKey] }

ImageRecords == {[educational_description |-> d] : d \in Descriptions}

ExampleRecords == {[mentioned_visuals |-> m] : m \in SeqsUpTo(Mentions, MaxMentions)}

ResInit ==
    /\ examples \in SeqsUpTo(ExampleRecords, MaxExamples)
    /\ page_images \in SeqsUpTo(ImageRecords, MaxImages)
    /\ enhanced = "no"

EnhanceExamples ==
    /\ enhanced = "no"
    /\ examples' = EnhanceWithVisualContent("example", examples, page_images)
    /\ enhanced' = "example"
    /\ UNCHANGED <<page_images, notResVars>>

EnhanceExercises ==
    /\ enhanced = "no"
    /\ examples' = EnhanceWithVisualContent("exercise", examples, page_images)
    /\ enhanced' = "exercise"
    /\ UNCHANGED <<page_images, notResVars>>

ResNext == EnhanceExamples \/ EnhanceExercises

InitResolver == ResInit /\ NotResIdle

SpecResolver == InitResolver /\ [][ResNext]_vars

(***************************************************************************)
(* assign_topics_to_pages: reading the collaborator's answer               *)
(* A response text is a sequence of characters.                            *)
(***************************************************************************)
DigitValue(c) ==
    CASE c = "0" -> 0 [] c = "1" -> 1 [] c = "2" -> 2 [] c = "3" -> 3
      [] c = "4" -> 4 [] c = "5" -> 5 [] c = "6" -> 6 [] c = "7" -> 7
      [] c = "8" -> 8 [] c = "9" -> 9

\* str.strip()
\* str.lstrip(chars)
RECURSIVE LStripChars(_, _)
LStripChars(t, chars) ==
    IF t # <<>> /\ Head(t) \in chars THEN LStripChars(Tail(t), chars) ELSE t

LStrip(t) == LStripChars(t, Whitespace)

RECURSIVE RStrip(_)
RStrip(t) ==
    IF t # <<>> /\ t[Len(t)] \in Whitespace
    THEN RStrip(SubSeq(t, 1, Len(t) - 1)) ELSE t

Strip(t) == RStrip(LStrip(t))

\* str.split(sep): the parts between the separators, empty parts kept
RECURSIVE Split(_, _, _)
Split(t, sep, part) ==
    IF t = <<>> THEN <<part>>
    ELSE IF Head(t) = sep THEN <<part>> \o Split(Tail(t), sep, <<>>)
         ELSE Split(Tail(t), sep, Append(part, Head(t)))

RECURSIVE DigitsValue(_, _)
DigitsValue(t, acc) ==
    IF t = <<>> THEN acc ELSE DigitsValue(Tail(t), 10 * acc + DigitValue(Head(t)))

\* int(part.strip()): a sign, then digits only; ValueError otherwise
ParseInt(part) ==
    LET t == Strip(part)
        signed == t # <<>> /\ Head(t) \in {"-", "+"}
        body == IF signed THEN Tail(t) ELSE t
    IN IF body # <<>> /\ \A i \in 1..Len(body) : body[i] \in Digits
       THEN [ok |-> TRUE,
             num |-> IF signed /\ Head(t) = "-" THEN 0 - DigitsValue(body, 0)
                     ELSE DigitsValue(body, 0)]
       ELSE [ok |-> FALSE, num |-> 0]

\* the loop over response_text.split(','), and the loop without its
\* duplicate test
RECURSIVE TopicNumbersNoDedup(_, _, _)
TopicNumbersNoDedup(parts, topic_numbers, topic_count) ==
    IF parts = <<>> THEN topic_numbers
    ELSE LET p == ParseInt(Head(parts))
         IN TopicNumbersNoDedup(Tail(parts),
                IF p.ok /\ 1 <= p.num /\ p.num <= topic_count
                THEN Append(topic_numbers, p.num) ELSE topic_numbers,
                topic_count)

RECURSIVE TopicNumbers(_, _, _)
TopicNumbers(parts, topic_numbers, topic_count) ==
    IF parts = <<>> THEN topic_numbers
    ELSE LET p == ParseInt(Head(parts))
         IN TopicNumbers(Tail(parts),
                IF p.ok /\ 1 <= p.num /\ p.num <= topic_count
                   /\ p.num \notin Range(topic_numbers)
                THEN Append(topic_numbers, p.num) ELSE topic_numbers,
                topic_count)

\* response.text.strip(), split and read
AssignedTopics(answer, topic_count) ==
    TopicNumbers(Split(Strip(answer), ",", <<>>), <<>>, topic_count)

(***************************************************************************)
(* main.py: GSEBPDFProcessor                                               *)
(* A page text is a sequence of lines; a line is an OCR line or a          *)
(* reference line "[chitra i: description]" of the integration stage.      *)
(* A dict's optional keys are listed in the record's field `keys'.         *)
(***************************************************************************)
MaxPages == 2

OcrLine(k) == [kind |-> "ocr", ordinal |-> k, description |-> <<>>]

RefLine(i, description) == [kind |-> "ref", ordinal |-> i, description |-> description]

ShortText == <<OcrLine(1)>>

LongText == <<OcrLine(1), OcrLine(2)>>

\* "સારાંશ ઉપલબ્ધ નથી"
SummaryNotAvailable == "saransh_uplabdh_nathi"

\* _is_mathematical_content
english_mathematical_keywords ==
    { <<"d", "i", "a", "g", "r", "a", "m">>,
      <<"c", "h", "a", "r", "t">>,
      <<"g", "r", "a", "p", "h">>,
      <<"t", "a", "b", "l", "e">>,
      <<"m", "a", "t", "h", "e", "m", "a", "t", "i", "c", "a", "l", " ", "e", "x", "p", "r", "e", "s", "s", "i", "o", "n">>,
      <<"f", "o", "r", "m", "u", "l", "a">>,
      <<"i", "m", "a", "g", "e">>,
      <<"f", "i", "g", "u", "r", "e">>,
      <<"e", "q", "u", "a", "t", "i", "o", "n">>,
      <<"p", "l", "o", "t">>,
      <<"g", "r", "i", "d">>,
      <<"c", "o", "o", "r", "d", "i", "n", "a", "t", "e">>,
      <<"a", "x", "i", "s">>,
      <<"l", "i", "n", "e">>,
      <<"c", "u", "r", "v", "e">>,
      <<"g", "e", "o", "m", "e", "t", "r", "i", "c">>,
      <<"t", "r", "i", "a", "n", "g", "l", "e">>,
      <<"c", "i", "r", "c", "l", "e">>,
      <<"r", "e", "c", "t", "a", "n", "g", "l", "e">>,
      <<"p", "o", "l", "y", "g", "o", "n">>,
      <<"s", "h", "a", "p", "e">>,
      <<"d", "r", "a", "w", "i", "n", "g">>,
      <<"i", "l", "l", "u", "s", "t", "r", "a", "t", "i", "o", "n">> }

\* the Gujarati keywords: a Gujarati word is written as one symbol, it shares
\* no character with a Latin word
gujarati_mathematical_keywords ==
    { <<"aakruti">>,
      <<"chart_gu">>,
      <<"aalekh">>,
      <<"koshtak">>,
      <<"sutra">>,
      <<"samikaran">>,
      <<"trikon">>,
      <<"vartul">>,
      <<"chaturbhuj">>,
      <<"rekhakruti">>,
      <<"chitra">> }

\* a name accepted only when it is a keyword
IsMathematicalContentWholeName(object_name) ==
    \/ LowerChars(object_name) \in english_mathematical_keywords
    \/ object_name \in gujarati_mathematical_keywords

\* `keyword in object_lower` for the English list, `keyword in object_name`
\* for the Gujarati list
IsMathematicalContent(object_name) ==
    \/ \E keyword \in english_mathematical_keywords :
          IsSubstring(keyword, LowerChars(object_name))
    \/ \E keyword \in gujarati_mathematical_keywords :
          IsSubstring(keyword, object_name)

VisionImage(name) ==
    [object_type |-> name, detection_method |-> "vision_object_detection",
     keys |-> {}, educational_description |-> <<>>, reference_id |-> <<>>]

GeminiImage(det) ==
    [object_type |-> det, detection_method |-> "gemini_ai_detection",
     keys |-> {}, educational_description |-> <<>>, reference_id |-> <<>>]

\* a page record numbered with the loop index, from 0
NewPageNumberedFromZero(page_number) ==
    [page_number |-> page_number - 1, text |-> <<>>, images |-> <<>>, keys |-> {},
     error |-> "", page_summary |-> "", assigned_topics |-> <<>>]

NewPage(page_number) ==
    [page_number |-> page_number, text |-> <<>>, images |-> <<>>, keys |-> {},
     error |-> "", page_summary |-> "", assigned_topics |-> <<>>]

\* a degraded page that keeps a text
VisionErrorPageWithText(page_number) ==
    [NewPage(page_number) EXCEPT
        !.keys = {"error"}, !.error = "Vision API error", !.text = ShortText]

\* the page appended when response.status_code != 200
VisionErrorPage(page_number) ==
    [NewPage(page_number) EXCEPT !.keys = {"error"}, !.error = "Vision API error"]

\* _process_enhanced_vision_response; ai_detected is what
\* detect_mathematical_content_with_ai returned for the page
ProcessEnhancedVisionResponse(vision_result, page_number, ai_detected) ==
    IF ~vision_result.has_responses
    THEN [NewPage(page_number) EXCEPT
            !.keys = {"error"}, !.error = "No response data from Vision API"]
    ELSE LET text1 == IF vision_result.has_text_annotations
                      THEN vision_result.text_description ELSE <<>>
             text2 == IF vision_result.has_full_text
                         /\ Len(vision_result.full_text) > Len(text1)
                      THEN vision_result.full_text ELSE text1
             mathematical == SelectSeq(vision_result.objects, IsMathematicalContent)
             detected_objects ==
                 [i \in 1..Len(mathematical) |-> VisionImage(mathematical[i])]
             ai_images == [i \in 1..Len(ai_detected) |-> GeminiImage(ai_detected[i])]
         IN [NewPage(page_number) EXCEPT
                !.text = text2,
                !.keys = IF vision_result.has_text_annotations THEN {} ELSE {"error"},
                !.error = IF vision_result.has_text_annotations THEN ""
                          ELSE "No text extracted from TEXT_DETECTION",
                !.images = detected_objects \o ai_images]

\* names of localized objects
TriangleOutline == <<"t", "r", "i", "a", "n", "g", "l", "e", " ", "o", "u", "t", "l", "i", "n", "e">>

Person == <<"p", "e", "r", "s", "o", "n">>

PieChart == <<"P", "i", "e", " ", "C", "h", "a", "r", "t">>

\* what the vision collaborator answers with status 200
VisionResults ==
    { [has_responses |-> FALSE, has_text_annotations |-> FALSE, text_description |-> <<>>,
       has_full_text |-> FALSE, full_text |-> <<>>, objects |-> <<>>],
      [has_responses |-> TRUE, has_text_annotations |-> TRUE, text_description |-> ShortText,
       has_full_text |-> TRUE, full_text |-> LongText,
       objects |-> <<TriangleOutline, Person>>],
      [has_responses |-> TRUE, has_text_annotations |-> FALSE, text_description |-> <<>>,
       has_full_text |-> TRUE, full_text |-> LongText, objects |-> <<>>],
      [has_responses |-> TRUE, has_text_annotations |-> TRUE, text_description |-> ShortText,
       has_full_text |-> FALSE, full_text |-> <<>>, objects |-> <<PieChart>>] }

\* what detect_mathematical_content_with_ai returns: the parsed list, []
\* when the answer is no JSON list
AiDetections == { <<>>, << <<"graaph">> >> }

\* what the generative collaborator answers to a description request
GeneratedDescriptions == { <<"koshtak", "3.1">> }

PageSummaries == {"summary"}

PipeInit ==
    /\ pc = "convert"
    /\ page_idx = 0
    /\ image_idx = 0
    /\ rendered_images = 0
    /\ pages_data = <<>>
    /\ api_calls = [vision_api |-> 0, gemini_api |-> 0]
    /\ requests = [vision_api |-> 0, gemini_api |-> 0]
    /\ chapter_info = [chapter_summary |-> <<>>]
    /\ topics_list = <<>>
    /\ result = "running"
    /\ failure = "none"
    /\ response_text = <<>>
    /\ localized_objects = <<>>

\* process_pdf returns None
ReturnNone(why) ==
    /\ pc' = "done"
    /\ result' = "None"
    /\ failure' = why

\* ---- Step 1: extract_pdf_with_images ----
\* convert_from_path yields n page images; with none the page list is
\* empty and process_pdf gives up
\* process_pdf without its test for an empty page list
ConvertFromPathGoesOn(n) ==
    /\ pc = "convert"
    /\ rendered_images' = n
    /\ page_idx' = 1
    /\ pc' = "extract"
    /\ UNCHANGED <<image_idx, pages_data, api_calls, requests, chapter_info,
                   topics_list, result, failure, response_text, localized_objects, notPipeVars>>

ConvertFromPath(n) ==
    /\ pc = "convert"
    /\ rendered_images' = n
    /\ page_idx' = 1
    /\ IF n = 0 THEN ReturnNone("no pages")
       ELSE pc' = "extract" /\ UNCHANGED <<result, failure>>
    /\ UNCHANGED <<image_idx, pages_data, api_calls, requests, chapter_info,
                   topics_list, response_text, localized_objects, notPipeVars>>

\* convert_from_path raises: extract_pdf_with_images returns []
ConvertFails ==
    /\ pc = "convert"
    /\ ReturnNone("no pages")
    /\ UNCHANGED <<page_idx, image_idx, rendered_images, pages_data, api_calls,
                   requests, chapter_info, topics_list, response_text, localized_objects, notPipeVars>>

InExtractLoop == pc = "extract" /\ page_idx <= rendered_images

\* requests.post raises: nothing in extract_pdf_with_images catches it,
\* the except clause of process_pdf does
VisionRequestRaises ==
    /\ InExtractLoop
    /\ requests' = [requests EXCEPT !.vision_api = @ + 1]
    /\ ReturnNone("exception")
    /\ UNCHANGED <<page_idx, image_idx, rendered_images, pages_data, api_calls,
                   chapter_info, topics_list, response_text, localized_objects, notPipeVars>>

\* a non-success answer counted twice
VisionNonSuccessCountedTwice ==
    /\ InExtractLoop
    /\ requests' = [requests EXCEPT !.vision_api = @ + 1]
    /\ api_calls' = [api_calls EXCEPT !.vision_api = @ + 2]
    /\ pages_data' = Append(pages_data, VisionErrorPage(page_idx))
    /\ page_idx' = page_idx + 1
    /\ localized_objects' = <<>>
    /\ UNCHANGED <<pc, image_idx, rendered_images, chapter_info, topics_list,
                   result, failure, response_text, notPipeVars>>

\* status_code != 200
VisionNonSuccess ==
    /\ InExtractLoop
    /\ requests' = [requests EXCEPT !.vision_api = @ + 1]
    /\ api_calls' = [api_calls EXCEPT !.vision_api = @ + 1]
    /\ pages_data' = Append(pages_data, VisionErrorPage(page_idx))
    /\ page_idx' = page_idx + 1
    /\ localized_objects' = <<>>
    /\ UNCHANGED <<pc, image_idx, rendered_images, chapter_info, topics_list,
                   result, failure, response_text, notPipeVars>>

\* status 200; the generative detection pass runs when the response has
\* data and is not counted in api_calls
ExtractPage(vision_result, ai_detected) ==
    /\ InExtractLoop
    /\ ~vision_result.has_responses => ai_detected = <<>>
    /\ requests' = [requests EXCEPT
                      !.vision_api = @ + 1,
                      !.gemini_api = @ + (IF vision_result.has_responses THEN 1 ELSE 0)]
    /\ api_calls' = [api_calls EXCEPT !.vision_api = @ + 1]
    /\ pages_data' = Append(pages_data,
                        ProcessEnhancedVisionResponse(vision_result, page_idx, ai_detected))
    /\ page_idx' = page_idx + 1
    /\ localized_objects' = vision_result.objects
    /\ UNCHANGED <<pc, image_idx, rendered_images, chapter_info, topics_list,
                   result, failure, response_text, notPipeVars>>

\* generate_content raises inside detect_mathematical_content_with_ai:
\* no try around it up to process_pdf
DetectionRaises ==
    /\ InExtractLoop
    /\ requests' = [requests EXCEPT !.vision_api = @ + 1, !.gemini_api = @ + 1]
    /\ api_calls' = [api_calls EXCEPT !.vision_api = @ + 1]
    /\ ReturnNone("exception")
    /\ UNCHANGED <<page_idx, image_idx, rendered_images, pages_data,
                   chapter_info, topics_list, response_text, localized_objects, notPipeVars>>

TotalImages(pages) ==
    LET RECURSIVE Sum(_)
        Sum(k) == IF k = 0 THEN 0 ELSE Len(pages[k].images) + Sum(k - 1)
    IN Sum(Len(pages))

\* the loop is over: Step 2 starts, and returns at once with no image
EndExtraction ==
    /\ pc = "extract"
    /\ page_idx > rendered_images
    /\ pc' = IF TotalImages(pages_data) = 0 THEN "integrate" ELSE "describe"
    /\ page_idx' = 1
    /\ image_idx' = 1
    /\ UNCHANGED <<rendered_images, pages_data, api_calls, requests, chapter_info,
                   topics_list, result, failure, response_text, localized_objects, notPipeVars>>

\* ---- Step 2: describe_images_with_ai ----
InDescribeLoop == pc = "describe" /\ page_idx <= Len(pages_data)

AtImage == InDescribeLoop /\ image_idx <= Len(pages_data[page_idx].images)

SetDescription(description) ==
    [pages_data EXCEPT ![page_idx].images[image_idx] =
        [@ EXCEPT !.keys = @ \cup {"educational_description"},
                  !.educational_description = description]]

DescribeImage(description) ==
    /\ AtImage
    /\ requests' = [requests EXCEPT !.gemini_api = @ + 1]
    /\ api_calls' = [api_calls EXCEPT !.gemini_api = @ + 1]
    /\ pages_data' = SetDescription(description)
    /\ image_idx' = image_idx + 1
    /\ UNCHANGED <<pc, page_idx, rendered_images, chapter_info, topics_list,
                   result, failure, response_text, localized_objects, notPipeVars>>

\* a failed request that leaves the image as it was
DescribeImageFailsWithoutDescription ==
    /\ AtImage
    /\ requests' = [requests EXCEPT !.gemini_api = @ + 1]
    /\ image_idx' = image_idx + 1
    /\ UNCHANGED <<pc, page_idx, rendered_images, pages_data, api_calls, chapter_info,
                   topics_list, result, failure, response_text, localized_objects, notPipeVars>>

\* generate_content raises: the image gets the sentinel, nothing is counted
DescribeImageFails ==
    /\ AtImage
    /\ requests' = [requests EXCEPT !.gemini_api = @ + 1]
    /\ pages_data' = SetDescription(DescriptionNotAvailable)
    /\ image_idx' = image_idx + 1
    /\ UNCHANGED <<pc, page_idx, rendered_images, api_calls, chapter_info,
                   topics_list, result, failure, response_text, localized_objects, notPipeVars>>

\* the images of the page are done (or it has none): next page
DescribeNextPage ==
    /\ InDescribeLoop
    /\ ~AtImage
    /\ page_idx' = page_idx + 1
    /\ image_idx' = 1
    /\ UNCHANGED <<pc, rendered_images, pages_data, api_calls, requests,
                   chapter_info, topics_list, result, failure, response_text, localized_objects, notPipeVars>>

\* the stage left while pages are still to be described
EndDescriptionEarly ==
    /\ pc = "describe"
    /\ pc' = "integrate"
    /\ page_idx' = 1
    /\ UNCHANGED <<image_idx, rendered_images, pages_data, api_calls, requests,
                   chapter_info, topics_list, result, failure, response_text, localized_objects, notPipeVars>>

EndDescription ==
    /\ pc = "describe"
    /\ page_idx > Len(pages_data)
    /\ pc' = "integrate"
    /\ page_idx' = 1
    /\ UNCHANGED <<image_idx, rendered_images, pages_data, api_calls, requests,
                   chapter_info, topics_list, result, failure, response_text, localized_objects, notPipeVars>>

\* ---- Step 3: integrate_images_in_text ----
\* the page text followed by one reference line per image, in order
\* the reference lines put before the text of the page
IntegratedTextBefore(page) ==
    [i \in 1..Len(page.images) |->
        RefLine(i, page.images[i].educational_description)] \o page.text

IntegratedText(page) ==
    page.text \o [i \in 1..Len(page.images) |->
                    RefLine(i, page.images[i].educational_description)]

DecimalChars == <<"0", "1", "2", "3", "4", "5", "6", "7", "8", "9">>

\* an integer >= 0 as an f-string writes it
RECURSIVE Decimal(_)
Decimal(n) ==
    IF n < 10 THEN <<DecimalChars[n + 1]>>
    ELSE Decimal(n \div 10) \o <<DecimalChars[(n % 10) + 1]>>

\* f"ચિત્ર_{page['page_number']}_{i}"
ReferenceId(page_number, i) ==
    <<"c", "h", "i", "t", "r", "a", "_">> \o Decimal(page_number) \o <<"_">> \o Decimal(i)

\* the ids with the position alone
IntegratedImagesByPosition(page) ==
    [i \in 1..Len(page.images) |->
        [page.images[i] EXCEPT !.keys = @ \cup {"reference_id"},
                               !.reference_id = ReferenceId(0, i)]]

IntegratedImages(page) ==
    [i \in 1..Len(page.images) |->
        [page.images[i] EXCEPT !.keys = @ \cup {"reference_id"},
                               !.reference_id = ReferenceId(page.page_number, i)]]

IntegratePage(page) ==
    IF page.images # <<>>
    THEN [page EXCEPT !.text = IntegratedText(page), !.images = IntegratedImages(page)]
    ELSE page

\* the whole stage: no collaborator is called, nothing can interleave
IntegrateImagesInText ==
    /\ pc = "integrate"
    /\ pages_data' = IF TotalImages(pages_data) = 0 THEN pages_data
                     ELSE [k \in 1..Len(pages_data) |-> IntegratePage(pages_data[k])]
    /\ pc' = "summarize"
    /\ page_idx' = 1
    /\ UNCHANGED <<image_idx, rendered_images, api_calls, requests, chapter_info,
                   topics_list, result, failure, response_text, localized_objects, notPipeVars>>

\* ---- Step 4: summarize_pages ----
InSummarizeLoop == pc = "summarize" /\ page_idx <= Len(pages_data)

AllDescribed(page) ==
    \A i \in 1..Len(page.images) : "educational_description" \in page.images[i].keys

SummarizePage(summary) ==
    /\ InSummarizeLoop
    /\ AllDescribed(pages_data[page_idx])
    /\ requests' = [requests EXCEPT !.gemini_api = @ + 1]
    /\ api_calls' = [api_calls EXCEPT !.gemini_api = @ + 1]
    /\ pages_data' = [pages_data EXCEPT ![page_idx] =
                        [@ EXCEPT !.keys = @ \cup {"page_summary", "summarized_at"},
                                  !.page_summary = summary]]
    /\ page_idx' = page_idx + 1
    /\ UNCHANGED <<pc, image_idx, rendered_images, chapter_info, topics_list,
                   result, failure, response_text, localized_objects, notPipeVars>>

\* a missing description key raises before the request, generate_content
\* raises at the request
SummarizePageFails ==
    /\ InSummarizeLoop
    /\ requests' = [requests EXCEPT
                      !.gemini_api = @ + (IF AllDescribed(pages_data[page_idx]) THEN 1 ELSE 0)]
    /\ pages_data' = [pages_data EXCEPT ![page_idx] =
                        [@ EXCEPT !.keys = @ \cup {"page_summary"},
                                  !.page_summary = SummaryNotAvailable]]
    /\ page_idx' = page_idx + 1
    /\ UNCHANGED <<pc, image_idx, rendered_images, api_calls, chapter_info,
                   topics_list, result, failure, response_text, localized_objects, notPipeVars>>

EndSummarization ==
    /\ pc = "summarize"
    /\ page_idx > Len(pages_data)
    /\ pc' = "analyze"
    /\ UNCHANGED <<page_idx, image_idx, rendered_images, pages_data, api_calls,
                   requests, chapter_info, topics_list, result, failure, response_text, localized_objects, notPipeVars>>

\* ---- Step 5: analyze_chapter ----
\* "અધ્યાય વિશ્લેષણમાં ભૂલ - કોઈ સારાંશ ઉપલબ્ધ નથી" and "અધ્યાય વિશ્લેષણમાં ભૂલ"
NoSummariesAnalysis == <<"b", "h", "u", "l", " ", "-", " ", "k", "o", "i">>

FailedAnalysis == <<"b", "h", "u", "l">>

\* the test without its comparison with the sentinel
ValidSummariesAnyText(pages) ==
    {k \in 1..Len(pages) : "page_summary" \in pages[k].keys}

ValidSummaries(pages) ==
    {k \in 1..Len(pages) : "page_summary" \in pages[k].keys
                           /\ pages[k].page_summary # SummaryNotAvailable}

\* no valid page summary: fixed text, no request
AnalyzeChapterNoSummaries ==
    /\ pc = "analyze"
    /\ ValidSummaries(pages_data) = {}
    /\ chapter_info' = [chapter_summary |-> NoSummariesAnalysis]
    /\ pc' = "extract_topics"
    /\ UNCHANGED <<page_idx, image_idx, rendered_images, pages_data, api_calls,
                   requests, topics_list, result, failure, response_text, localized_objects, notPipeVars>>

AnalyzeChapter(analysis_text) ==
    /\ pc = "analyze"
    /\ ValidSummaries(pages_data) # {}
    /\ requests' = [requests EXCEPT !.gemini_api = @ + 1]
    /\ api_calls' = [api_calls EXCEPT !.gemini_api = @ + 1]
    /\ chapter_info' = [chapter_summary |-> analysis_text]
    /\ pc' = "extract_topics"
    /\ UNCHANGED <<page_idx, image_idx, rendered_images, pages_data, topics_list,
                   result, failure, response_text, localized_objects, notPipeVars>>

AnalyzeChapterFails ==
    /\ pc = "analyze"
    /\ ValidSummaries(pages_data) # {}
    /\ requests' = [requests EXCEPT !.gemini_api = @ + 1]
    /\ chapter_info' = [chapter_summary |-> FailedAnalysis]
    /\ pc' = "extract_topics"
    /\ UNCHANGED <<page_idx, image_idx, rendered_images, pages_data, api_calls,
                   topics_list, result, failure, response_text, localized_objects, notPipeVars>>

\* ---- Step 6: extract_topics_from_analysis ----
default_topics ==
    << <<"s", "a", "m", "a", "n", "y", "a">>,
       <<"s", "u", "t", "r", "o">>,
       <<"u", "d", "a", "h", "a", "r", "a", "n", "o">> >>

\* str.isdigit() is true of the decimal digits of every script: "gu1" is
\* the Gujarati digit one, a single character
IsDigit(c) == c \in Digits \cup {"gu1"}

StartsWithDash(line) == Len(line) >= 2 /\ line[1] = "-" /\ line[2] = " "

\* the topic a line contributes, <<>> when it contributes none
LineTopic(raw_line) ==
    LET line == Strip(raw_line)
        topic == Strip(LStripChars(line, Digits \cup {".", "-", " "}))
    IN IF line # <<>> /\ (IsDigit(line[1]) \/ StartsWithDash(line)) /\ Len(topic) > 5
       THEN <<topic>> ELSE <<>>

RECURSIVE LineTopics(_)
LineTopics(lines) ==
    IF lines = <<>> THEN <<>> ELSE LineTopic(Head(lines)) \o LineTopics(Tail(lines))

ExtractTopicsFromAnalysis(info) ==
    LET topics == LineTopics(Split(info.chapter_summary, "\n", <<>>))
    IN IF Len(topics) = 0 THEN default_topics ELSE topics

ExtractTopics ==
    /\ pc = "extract_topics"
    /\ topics_list' = ExtractTopicsFromAnalysis(chapter_info)
    /\ pc' = "assign"
    /\ page_idx' = 1
    /\ UNCHANGED <<image_idx, rendered_images, pages_data, api_calls, requests,
                   chapter_info, result, failure, response_text, localized_objects, notPipeVars>>

\* ---- Step 7: assign_topics_to_pages ----
InAssignLoop == pc = "assign" /\ page_idx <= Len(pages_data)

AssignTopicsToPage(response_text_read) ==
    /\ InAssignLoop
    /\ requests' = [requests EXCEPT !.gemini_api = @ + 1]
    /\ api_calls' = [api_calls EXCEPT !.gemini_api = @ + 1]
    /\ pages_data' = [pages_data EXCEPT ![page_idx] =
                        [@ EXCEPT !.keys = @ \cup {"assigned_topics", "topics_assigned_at"},
                                  !.assigned_topics =
                                      AssignedTopics(response_text_read, Len(topics_list))]]
    /\ response_text' = response_text_read
    /\ page_idx' = page_idx + 1
    /\ UNCHANGED <<pc, image_idx, rendered_images, chapter_info, topics_list,
                   result, failure, localized_objects, notPipeVars>>

AssignTopicsToPageFails ==
    /\ InAssignLoop
    /\ requests' = [requests EXCEPT !.gemini_api = @ + 1]
    /\ pages_data' = [pages_data EXCEPT ![page_idx] =
                        [@ EXCEPT !.keys = @ \cup {"assigned_topics"},
                                  !.assigned_topics = <<>>]]
    /\ page_idx' = page_idx + 1
    /\ UNCHANGED <<pc, image_idx, rendered_images, api_calls, chapter_info,
                   topics_list, result, failure, response_text, localized_objects, notPipeVars>>

EndAssignment ==
    /\ pc = "assign"
    /\ page_idx > Len(pages_data)
    /\ pc' = "save"
    /\ UNCHANGED <<page_idx, image_idx, rendered_images, pages_data, api_calls,
                   requests, chapter_info, topics_list, result, failure, response_text, localized_objects, notPipeVars>>

\* ---- Step 8: save_results ----
SaveResults ==
    /\ pc = "save"
    /\ pc' = "done"
    /\ result' = "output_file"
    /\ UNCHANGED <<page_idx, image_idx, rendered_images, pages_data, api_calls,
                   requests, chapter_info, topics_list, failure, response_text, localized_objects, notPipeVars>>

\* the file cannot be written: save_results returns None and so does process_pdf
SaveResultsFails ==
    /\ pc = "save"
    /\ ReturnNone("save")
    /\ UNCHANGED <<page_idx, image_idx, rendered_images, pages_data, api_calls,
                   requests, chapter_info, topics_list, response_text, localized_objects, notPipeVars>>

\* what the generative collaborator answers to the chapter analysis request
ChapterAnalyses ==
    { <<"1", ".", " ", "t", "o", "p", "i", "c", "A", "\n",
        "-", " ", "t", "o", "p", "i", "c", "B", "\n", "2", ".", " ", "a", "b", "\n",
        "n", "o", "t", "e", "\n", "gu1", ".", " ", "a", "b", "c">>,
      <<"n", "o", "t", "e">> }

\* and to a topic assignment request of the whole pipeline
FewResponses == { <<"2", ",", " ", "1", ",", "2", ",", "9">> }

ExtractStage ==
    \/ VisionRequestRaises
    \/ VisionNonSuccess
    \/ \E vision_result \in VisionResults, ai_detected \in AiDetections :
          ExtractPage(vision_result, ai_detected)
    \/ DetectionRaises
    \/ EndExtraction

DescribeStage ==
    \/ \E description \in GeneratedDescriptions : DescribeImage(description)
    \/ DescribeImageFails
    \/ DescribeNextPage
    \/ EndDescription

SummarizeStage ==
    \/ \E summary \in PageSummaries : SummarizePage(summary)
    \/ SummarizePageFails
    \/ EndSummarization

AnalyzeStage ==
    \/ AnalyzeChapterNoSummaries
    \/ \E analysis_text \in ChapterAnalyses : AnalyzeChapter(analysis_text)
    \/ AnalyzeChapterFails

AssignStage(responses) ==
    \/ \E answer \in responses : AssignTopicsToPage(answer)
    \/ AssignTopicsToPageFails
    \/ EndAssignment

Next ==
    \/ \E n \in 0..MaxPages : ConvertFromPath(n)
    \/ ConvertFails
    \/ ExtractStage
    \/ DescribeStage
    \/ IntegrateImagesInText
    \/ SummarizeStage
    \/ AnalyzeStage
    \/ ExtractTopics
    \/ AssignStage(FewResponses)
    \/ SaveResults
    \/ SaveResultsFails

Init == PipeInit /\ NotPipeIdle

Spec == Init /\ [][Next]_vars

(***************************************************************************)
(* The topic assignment stage on its own: a summarized document of 1 to    *)
(* MaxPages pages, a chapter analysis that lists 0 to MaxTopics topics,    *)
(* and any of the answers below for each page.                             *)
(***************************************************************************)
MaxTopics == 3

DigitChars == <<"1", "2", "3", "4", "5", "6", "7", "8", "9">>

\* the analysis line "k. topick"
TopicLine(k) == <<DigitChars[k], ".", " ", "t", "o", "p", "i", "c", DigitChars[k]>>

RECURSIVE AnalysisWithTopics(_)
AnalysisWithTopics(t) ==
    IF t = 0 THEN <<"n", "o", "t", "e">>
    ELSE AnalysisWithTopics(t - 1) \o <<"\n">> \o TopicLine(t)

SummarizedPage(k) ==
    [NewPage(k) EXCEPT !.text = LongText,
                       !.keys = {"page_summary", "summarized_at"},
                       !.page_summary = "summary"]

\* "1", "2, 1,2", "0,4,x", "", " 3 ", "1,,2", "-1,12", "3,3,1"
ResponseTexts ==
    { <<"1">>,
      <<"2", ",", " ", "1", ",", "2">>,
      <<"0", ",", "4", ",", "x">>,
      <<>>,
      <<" ", "3", " ">>,
      <<"1", ",", ",", "2">>,
      <<"-", "1", ",", "1", "2">>,
      <<"3", ",", "3", ",", "1">> }

TopicsInit ==
    \E n \in 1..MaxPages, t \in 0..MaxTopics :
        /\ pc = "assign"
        /\ page_idx = 1
        /\ image_idx = 1
        /\ rendered_images = n
        /\ pages_data = [k \in 1..n |-> SummarizedPage(k)]
        /\ api_calls = [vision_api |-> n, gemini_api |-> n + 1]
        /\ requests = [vision_api |-> n, gemini_api |-> 2 * n + 1]
        /\ chapter_info = [chapter_summary |-> AnalysisWithTopics(t)]
        /\ topics_list = ExtractTopicsFromAnalysis(chapter_info)
        /\ result = "running"
        /\ failure = "none"
        /\ response_text = <<>>
        /\ localized_objects = <<>>

NextTopics == AssignStage(ResponseTexts)

InitTopics == TopicsInit /\ NotPipeIdle

SpecTopics == InitTopics /\ [][NextTopics]_vars

(***************************************************************************)
(* example_extractor.py / exercise_extractor.py: the page loops            *)
(* A page text is given by its length in characters and the indicator      *)
(* words it contains.  A parsed JSON item is a dict (is_dict) with the     *)
(* keys listed in `keys', or something else.                               *)
(***************************************************************************)
MinTextLength == 100

example_indicators == {"udaharan", "Example", "ukel", "hal"}

TooShortBelowHalf(page_text) == page_text.length < 50

\* len(page_text) < 100
TooShort(page_text) == page_text.length < MinTextLength

HasExampleIndicator(page_text) == page_text.indicators \cap example_indicators # {}

chapter_name == "chapter"

Now == "now"

\* an item as the collaborator wrote it
PlainItem ==
    [is_dict |-> TRUE, keys |-> {"mentioned_visuals"}, page_number |-> 0,
     chapter |-> "", extracted_at |-> "", source |-> "", status |-> "",
     mentioned_visuals |->
        <<[reference |-> <<"koshtak", "3.1">>, type |-> "koshtak",
           full_description |-> NoKey]>>]

\* an item in which the collaborator filled the metadata fields itself
ItemWithMetadata ==
    [PlainItem EXCEPT
        !.keys = {"mentioned_visuals", "page_number", "chapter", "extracted_at",
                  "source", "status"},
        !.page_number = 7, !.chapter = "other chapter", !.extracted_at = "never",
        !.source = "textbook", !.status = "active", !.mentioned_visuals = <<>>]

\* an item that is a string or a number
NotADict == [PlainItem EXCEPT !.is_dict = FALSE, !.keys = {}, !.mentioned_visuals = <<>>]

ParsedLists ==
    { <<>>, <<PlainItem>>, <<ItemWithMetadata>>, <<PlainItem, ItemWithMetadata>>,
      <<NotADict, PlainItem>> }

\* what the collaborator answers: nothing, text that is no JSON, a JSON
\* object, a JSON scalar, or a JSON array; bare or in a ```json fence
CollaboratorResponses ==
    { [fence |-> f, kind |-> k, items |-> <<>>] :
        f \in {"none", "json"}, k \in {"empty", "malformed", "object", "scalar"} }
    \cup { [fence |-> f, kind |-> "array", items |-> l] :
             f \in {"none", "json"}, l \in ParsedLists }

\* The answer as text: a sequence of tokens, a token being a fence mark, the
\* word json, a line break, a bracket, a comma, a number or a whole item;
\* <fence> is the mark of three backticks.
ItemToken(item) ==
    IF ~item.is_dict THEN "<string>"
    ELSE IF "page_number" \in item.keys THEN "{meta}" ELSE "{plain}"

ItemTokens == {"<string>", "{meta}", "{plain}"}

RECURSIVE ItemsText(_)
ItemsText(items) ==
    IF items = <<>> THEN <<>>
    ELSE IF Len(items) = 1 THEN <<ItemToken(items[1])>>
    ELSE <<ItemToken(items[1]), ",">> \o ItemsText(Tail(items))

\* response.text for an answer of the given shape
ResponseText(response) ==
    LET body == CASE response.kind = "array" -> <<"[">> \o ItemsText(response.items) \o <<"]">>
                  [] response.kind = "object" -> <<"{", "}">>
                  [] response.kind = "scalar" -> <<"42">>
                  [] response.kind = "malformed" -> <<"[", "{plain}", ",">>
                  [] OTHER -> <<>>
    IN IF response.fence = "json"
       THEN <<"<fence>", "json", "\n">> \o body \o <<"\n", "<fence>">>
       ELSE body

\* str.strip() and the strip of the fence marks, on tokens
RECURSIVE StripTokens(_, _)
StripTokens(t, marks) ==
    IF t # <<>> /\ Head(t) \in marks THEN StripTokens(Tail(t), marks)
    ELSE IF t # <<>> /\ t[Len(t)] \in marks THEN StripTokens(SubSeq(t, 1, Len(t) - 1), marks)
    ELSE t

\* the removal of a markdown fence, as both extractors do it
CleanResponseText(t) ==
    LET unfenced == IF t # <<>> /\ Head(t) = "<fence>" THEN StripTokens(t, {"<fence>"}) ELSE t
        unnamed == IF t # <<>> /\ Head(t) = "<fence>" /\ unfenced # <<>>
                      /\ Head(unfenced) \in {"json", "JSON", "Json"}
                   THEN StripTokens(Tail(unfenced), {"\n"})
                   ELSE unfenced
    IN StripTokens(unnamed, {"\n"})

ParseItem(token) ==
    CASE token = "{plain}" -> PlainItem
      [] token = "{meta}" -> ItemWithMetadata
      [] OTHER -> NotADict

\* json.loads: the list for a well-formed array; "error" for text that is
\* no JSON, "other" for a JSON value that is no array
JsonLoads(t) ==
    LET inner == SubSeq(t, 2, Len(t) - 1)
        well_formed ==
            \/ inner = <<>>
            \/ /\ Len(inner) % 2 = 1
               /\ \A i \in 1..Len(inner) :
                     IF i % 2 = 1 THEN inner[i] \in ItemTokens ELSE inner[i] = ","
    IN IF Len(t) >= 2 /\ Head(t) = "[" /\ t[Len(t)] = "]" /\ well_formed
       THEN [value |-> "list",
             items |-> [i \in 1..((Len(inner) + 1) \div 2) |-> ParseItem(inner[2 * i - 1])]]
       ELSE IF t = <<"{", "}">> \/ t = <<"42">> \/ (Len(t) = 1 /\ t[1] \in ItemTokens)
       THEN [value |-> "other", items |-> <<>>]
       ELSE [value |-> "error", items |-> <<>>]

\* every answer counts as an array
ParsedItemsUnfiltered(variant_name, response) == <<PlainItem>> \o response.items

\* the list the extractor goes on with; <<>> stands for every `return []'
ParsedItems(variant_name, response) ==
    LET stripped == StripTokens(ResponseText(response), {"\n"})
        cleaned == CleanResponseText(stripped)
    IN IF stripped = <<>> THEN <<>>
       ELSE IF variant_name = "example"
               /\ ~(cleaned # <<>> /\ Head(cleaned) \in {"[", "{", "{plain}", "{meta}"})
       THEN <<>>
       ELSE JsonLoads(cleaned).items

ExampleMetadata(item, page_number) ==
    IF item.is_dict
    THEN [item EXCEPT
            !.keys = @ \cup {"page_number", "chapter", "extracted_at", "source", "status"},
            !.page_number = page_number, !.chapter = chapter_name,
            !.extracted_at = Now, !.source = "example", !.status = "inactive"]
    ELSE item

\* the exercise extractor sets no page_number
ExerciseMetadata(item) ==
    [item EXCEPT
        !.keys = @ \cup {"chapter", "extracted_at", "source", "status"},
        !.chapter = chapter_name, !.extracted_at = Now,
        !.source = "exercise", !.status = "inactive"]

\* _extract_examples_with_ai / _extract_exercises_with_ai after the request
ExtractWithAi(variant_name, response, page_number) ==
    LET items == ParsedItems(variant_name, response)
        dicts == SelectSeq(items, LAMBDA item : item.is_dict)
    IN IF variant_name = "example"
       THEN [i \in 1..Len(items) |-> ExampleMetadata(items[i], page_number)]
       ELSE [i \in 1..Len(dicts) |-> ExerciseMetadata(dicts[i])]

\* what the page adds to the result: the enhanced records, or nothing when
\* the list is empty or `.get' is called on an item that is no dict (the
\* exception ends the page)
PageRaises(records) == \E i \in 1..Len(records) : ~records[i].is_dict

PageRecords(variant_name, records, page) ==
    IF records = <<>> \/ PageRaises(records)
    THEN <<>>
    ELSE EnhanceWithVisualContent(variant_name, records, page.images)

PageTexts ==
    { [length |-> 50, indicators |-> {"udaharan"}],
      [length |-> 99, indicators |-> {"udaharan"}],
      [length |-> 100, indicators |-> {"ukel"}],
      [length |-> 100, indicators |-> {}] }

PageImageLists == { <<>>, <<[educational_description |-> <<"koshtak", "3.1">>]>> }

DocumentPages(n) ==
    { pages \in [1..n -> [page_number : 1..n, text : PageTexts, images : PageImageLists]] :
        \A k \in 1..n : /\ pages[k].page_number = k
                        /\ TooShort(pages[k].text) => pages[k].images = <<>> }

ExtInit ==
    /\ extractor \in {"example", "exercise"}
    /\ \E n \in 0..MaxPages : json_pages \in DocumentPages(n)
    /\ page_pos = 1
    /\ all_records = <<>>
    /\ extractor_calls = 0
    /\ last_response = [fence |-> "none", kind |-> "no request", items |-> <<>>]
    /\ extract_log = <<>>

InPageLoop == extractor # "none" /\ page_pos <= Len(json_pages)

\* `continue' on a page with too little text
SkipShortPage ==
    /\ InPageLoop
    /\ TooShort(json_pages[page_pos].text)
    /\ page_pos' = page_pos + 1
    /\ UNCHANGED <<extractor, json_pages, all_records, extractor_calls,
                   last_response, extract_log, notExtVars>>

\* `continue' on a page without an example indicator (examples only)
SkipPageWithoutIndicator ==
    /\ InPageLoop
    /\ extractor = "example"
    /\ ~TooShort(json_pages[page_pos].text)
    /\ ~HasExampleIndicator(json_pages[page_pos].text)
    /\ page_pos' = page_pos + 1
    /\ UNCHANGED <<extractor, json_pages, all_records, extractor_calls,
                   last_response, extract_log, notExtVars>>

SendsRequest ==
    /\ InPageLoop
    /\ ~TooShort(json_pages[page_pos].text)
    /\ extractor = "example" => HasExampleIndicator(json_pages[page_pos].text)

\* the request is answered; time.sleep(1) ends the page unless an
\* exception has ended it before
ExtractFromPage(response) ==
    LET records == ExtractWithAi(extractor, response, json_pages[page_pos].page_number)
    IN /\ SendsRequest
       /\ extractor_calls' = extractor_calls + 1
       /\ last_response' = response
       /\ all_records' = all_records \o PageRecords(extractor, records, json_pages[page_pos])
       /\ extract_log' = extract_log \o
             (IF PageRaises(records) THEN <<"call">> ELSE <<"call", "delay">>)
       /\ page_pos' = page_pos + 1
       /\ UNCHANGED <<extractor, json_pages, notExtVars>>

\* generate_content raises: `return []' before the counter is touched
ExtractionRequestFails ==
    /\ SendsRequest
    /\ last_response' = [fence |-> "none", kind |-> "raised", items |-> <<>>]
    /\ extract_log' = extract_log \o <<"call", "delay">>
    /\ page_pos' = page_pos + 1
    /\ UNCHANGED <<extractor, json_pages, all_records, extractor_calls, notExtVars>>

ExtNext ==
    \/ SkipShortPage
    \/ SkipPageWithoutIndicator
    \/ \E response \in CollaboratorResponses : ExtractFromPage(response)
    \/ ExtractionRequestFails

InitExtract == ExtInit /\ NotExtIdle

SpecExtract == InitExtract /\ [][ExtNext]_vars

(***************************************************************************)
(* GSEBExampleExtractor._classify_visual_type                              *)
(* The description is a sequence of characters, `in' is the substring      *)
(* test.  Gujarati words are spelled in their transliteration.             *)
(***************************************************************************)
kw_koshtak == <<"k", "o", "s", "h", "t", "a", "k">>

kw_table == <<"t", "a", "b", "l", "e">>

kw_aakruti == <<"a", "a", "k", "r", "u", "t", "i">>

kw_aalekh == <<"a", "a", "l", "e", "k", "h">>

kw_graph == <<"g", "r", "a", "p", "h">>

kw_chitra == <<"c", "h", "i", "t", "r", "a">>

kw_diagram == <<"d", "i", "a", "g", "r", "a", "m">>

kw_rekha == <<"r", "e", "k", "h", "a">>

kw_line == <<"l", "i", "n", "e">>

\* the chain with its first two branches in the other order
ClassifyVisualTypeGraphFirst(description) ==
    LET desc_lower == LowerChars(description)
    IN IF IsSubstring(kw_aakruti, desc_lower) \/ IsSubstring(kw_aalekh, desc_lower)
          \/ IsSubstring(kw_graph, desc_lower)
       THEN "aakruti/aalekh"
       ELSE IF IsSubstring(kw_koshtak, desc_lower) \/ IsSubstring(kw_table, desc_lower)
       THEN "koshtak"
       ELSE IF IsSubstring(kw_chitra, desc_lower) \/ IsSubstring(kw_diagram, desc_lower)
       THEN "chitra"
       ELSE IF IsSubstring(kw_rekha, desc_lower) \/ IsSubstring(kw_line, desc_lower)
       THEN "rekhakruti"
       ELSE "aakruti"

ClassifyVisualType(description) ==
    LET desc_lower == LowerChars(description)
    IN IF IsSubstring(kw_koshtak, desc_lower) \/ IsSubstring(kw_table, desc_lower)
       THEN "koshtak"
       ELSE IF IsSubstring(kw_aakruti, desc_lower) \/ IsSubstring(kw_aalekh, desc_lower)
               \/ IsSubstring(kw_graph, desc_lower)
       THEN "aakruti/aalekh"
       ELSE IF IsSubstring(kw_chitra, desc_lower) \/ IsSubstring(kw_diagram, desc_lower)
       THEN "chitra"
       ELSE IF IsSubstring(kw_rekha, desc_lower) \/ IsSubstring(kw_line, desc_lower)
       THEN "rekhakruti"
       ELSE "aakruti"

MaxPieces == 2

\* the pieces descriptions are put together from: the keywords in lower and
\* mixed case, a word that holds `line', a word that holds none
DescriptionPieces ==
    { kw_koshtak, <<"T", "a", "b", "l", "e">>, kw_aakruti, kw_aalekh,
      <<"G", "R", "A", "P", "H">>, kw_chitra, <<"D", "i", "a", "g", "r", "a", "m">>,
      kw_rekha, <<"o", "u", "t", "L", "i", "n", "e">>, <<"b", "i", "n", "d", "u", " ">> }

ClsInit ==
    /\ image_description = <<>>
    /\ pieces = 0
    /\ visual_category = ClassifyVisualType(<<>>)

\* the classifier is called on a description one piece longer
ClassifyLongerDescription(piece) ==
    /\ visual_category # "none"
    /\ pieces < MaxPieces
    /\ image_description' = image_description \o piece
    /\ pieces' = pieces + 1
    /\ visual_category' = ClassifyVisualType(image_description')
    /\ UNCHANGED notClsVars

ClsNext == \E piece \in DescriptionPieces : ClassifyLongerDescription(piece)

InitClassifier == ClsInit /\ NotClsIdle

SpecClassifier == InitClassifier /\ [][ClsNext]_vars

(***************************************************************************)
(* Claims on the resolver and the enhancement step                         *)
(***************************************************************************)
ExactCandidates(visual_reference, images) ==
    {i \in 1..Len(images) :
        /\ Contains(images[i].educational_description, SearchNumber(visual_reference, 1))
        /\ Contains(images[i].educational_description, visual_reference[1])}

\* <<record, mention>> positions of the records at hand
AllVisuals ==
    UNION {{<<r, v>> : v \in 1..Len(examples[r].mentioned_visuals)} :
             r \in 1..Len(examples)}

VisualAt(rv) == examples[rv[1]].mentioned_visuals[rv[2]]

\* C2: when the reference holds a number N.M and some candidate's
\* description contains N.M and the leading word of the reference, the
\* resolver returns the description of the first such candidate, in both
\* variants, whatever the keyword fallback would find.
C2_ExactMatchFirst ==
    enhanced # "no" =>
        \A rv \in AllVisuals :
            LET visual == VisualAt(rv)
                cands == IF visual.reference # <<>>
                            /\ SearchNumber(visual.reference, 1) # NULL
                         THEN ExactCandidates(visual.reference, page_images)
                         ELSE {}
            IN cands # {} =>
                 \E i \in cands :
                    /\ \A j \in cands : i <= j
                    /\ visual.full_description = page_images[i].educational_description

\* C2 witness: the second image is the exact match, the first one matches
\* the type only through its synonym "table", and the mention got the
\* description of the second.
C2_Witness ==
    /\ enhanced # "no"
    /\ Len(page_images) = 2
    /\ \E rv \in AllVisuals :
          /\ VisualAt(rv).reference = <<"koshtak", "3.1">>
          /\ ExactCandidates(VisualAt(rv).reference, page_images) = {2}
          /\ KeywordMatch(TypeKeywords(enhanced, Lower(VisualAt(rv).type)),
                          page_images[1].educational_description)
          /\ VisualAt(rv).full_description = page_images[2].educational_description

\* the keys of the synonym table of a variant
SynonymKeys(variant) == {t \in {"koshtak", "aakruti", "aalekh", "chitra"} :
                            TypeKeywords(variant, t) # {}}

\* the candidates whose lower-cased description holds a synonym of the type
SynonymCandidates(variant, visual_type, images) ==
    {i \in 1..Len(images) :
        \E keyword \in TypeKeywords(variant, Lower(visual_type)) :
            Contains(LowerText(images[i].educational_description), keyword)}

NoExactMatch(visual, images) ==
    \/ visual.reference = <<>>
    \/ SearchNumber(visual.reference, 1) = NULL
    \/ ExactCandidates(visual.reference, images) = {}

\* C22: when the exact match finds nothing (the reference is empty, holds
\* no number, or no candidate has number and leading word), the resolver
\* returns nothing for a type that is no key of the synonym table, whatever
\* the candidates; for a key it returns the description of the first
\* candidate in list order that holds a synonym of the type, and nothing
\* when there is none.
C22_TypeFallback ==
    enhanced # "no" =>
        \A rv \in AllVisuals :
            LET visual == VisualAt(rv)
                found == FindMatchingVisualDescription(
                             enhanced, visual.reference, visual.type, page_images)
                cands == SynonymCandidates(enhanced, visual.type, page_images)
            IN NoExactMatch(visual, page_images) =>
                 /\ Lower(visual.type) \notin SynonymKeys(enhanced) => found = NoneText
                 /\ Lower(visual.type) \in SynonymKeys(enhanced) =>
                       IF cands = {} THEN found = NoneText
                       ELSE \E i \in cands :
                               /\ \A j \in cands : i <= j
                               /\ found = page_images[i].educational_description
                 /\ page_images # <<>> =>
                       visual.full_description =
                           (IF found = NoneText THEN DescriptionNotAvailable ELSE found)

\* C22 witness: two candidates hold a synonym of the type of one mention,
\* which got the first of them; another mention has a type that is no key
\* for this variant and got nothing although a candidate names it.
C22_Witness ==
    /\ enhanced = "example"
    /\ Len(page_images) = 2
    /\ page_images[1].educational_description = <<"rekha", "aalekh">>
    /\ page_images[2].educational_description = <<"Graph">>
    /\ \E rv, rw \in AllVisuals :
          /\ VisualAt(rv).type = "aakruti"
          /\ VisualAt(rv).reference = <<>>
          /\ VisualAt(rv).full_description = <<"rekha", "aalekh">>
          /\ VisualAt(rw).type = "aalekh"
          /\ VisualAt(rw).full_description = DescriptionNotAvailable

\* the synonym table of the specification: table, figure and diagram types
SpecSynonyms(visual_type_lower) ==
    CASE visual_type_lower = "koshtak" -> {"koshtak", "table"}
      [] visual_type_lower = "aakruti" -> {"aakruti", "aalekh", "graph"}
      [] visual_type_lower = "chitra" -> {"chitra", "diagram", "figure"}
      [] OTHER -> {}

\* C25 (as claimed): the resolver of the example variant and the resolver
\* of the exercise variant return the same result for every reference,
\* type and candidate list, both with the synonym table of the
\* specification, so a mention gets the same description from either.
C25_ResolversAgree ==
    enhanced # "no" =>
        \A rv \in AllVisuals :
            LET visual == VisualAt(rv)
                byExample == FindMatchingVisualDescription(
                                 "example", visual.reference, visual.type, page_images)
                byExercise == FindMatchingVisualDescription(
                                  "exercise", visual.reference, visual.type, page_images)
                specHits == {i \in 1..Len(page_images) :
                               \E keyword \in SpecSynonyms(Lower(visual.type)) :
                                  Contains(LowerText(page_images[i].educational_description),
                                           keyword)}
            IN /\ byExample = byExercise
               /\ NoExactMatch(visual, page_images) =>
                     \A variant \in {"example", "exercise"} :
                        FindMatchingVisualDescription(
                            variant, visual.reference, visual.type, page_images)
                        = (IF specHits = {} THEN NoneText
                           ELSE page_images[FirstIndex(specHits)].educational_description)
               /\ page_images # <<>> =>
                     visual.full_description =
                         (IF Truthy(byExample) THEN byExample ELSE DescriptionNotAvailable)

\* C3 (as claimed): after the enhancement step every visual mention of
\* every record has a full_description, whatever the number of images of
\* the page.
C3_EveryMentionDescribed ==
    enhanced # "no" =>
        \A rv \in AllVisuals : VisualAt(rv).full_description # NoKey

(***************************************************************************)
(* Claims on the document pipeline                                         *)
(***************************************************************************)
AssignedPages == {k \in 1..Len(pages_data) : "assigned_topics" \in pages_data[k].keys}

NoDuplicates(sq) == \A i, j \in 1..Len(sq) : sq[i] = sq[j] => i = j

\* C1: an exception in a per-page operation of process_pdf stays at its
\* page: every rendered page gets a record, the later stages run, and
\* process_pdf returns an output document whenever a page was extracted
\* (and the file could be written).
C1_PageExceptionsContained ==
    (/\ pc = "done"
     /\ \E k \in 1..Len(pages_data) : pages_data[k].text # <<>>
     /\ failure # "save")
        => (result = "output_file" /\ Len(pages_data) = rendered_images)

\* C6: after topic assignment every page's assigned_topics holds only
\* integers of 1..topicCount and none of them twice.
C6_AssignedTopicsValid ==
    \A k \in AssignedPages :
        /\ \A i \in 1..Len(pages_data[k].assigned_topics) :
              pages_data[k].assigned_topics[i] \in 1..Len(topics_list)
        /\ NoDuplicates(pages_data[k].assigned_topics)

\* the answer "2, 1,2" for two topics or more: the repeated 2 is dropped
\* and the order of first occurrence kept; the answer "0,4,x" for three
\* topics: nothing is kept
C6_Witness ==
    /\ pc = "save"
    /\ \E k \in AssignedPages : pages_data[k].assigned_topics = <<2, 1>>
    /\ response_text = <<"0", ",", "4", ",", "x">>
    /\ Len(topics_list) = 3
    /\ pages_data[Len(pages_data)].assigned_topics = <<>>

NoPageHasSummary ==
    \A k \in 1..Len(pages_data) :
        \/ "page_summary" \notin pages_data[k].keys
        \/ pages_data[k].page_summary = SummaryNotAvailable

\* C12: when no page has a summary other than the sentinel, analyze_chapter
\* returns the fixed error summary without a request to the generative
\* collaborator and leaves the call counter as it is; when some page has
\* one, exactly one request is made.
C12_AnalysisRequestOnlyWithSummaries ==
    [][pc = "analyze" =>
          IF NoPageHasSummary
          THEN /\ chapter_info'.chapter_summary = NoSummariesAnalysis
               /\ requests' = requests
               /\ api_calls' = api_calls
          ELSE /\ requests'.gemini_api = requests.gemini_api + 1
               /\ requests'.vision_api = requests.vision_api
               /\ api_calls'.gemini_api \in {api_calls.gemini_api, api_calls.gemini_api + 1}]_vars

\* the analysis of a two-page document whose summaries both failed
C12_Witness ==
    /\ pc = "extract_topics"
    /\ Len(pages_data) = 2
    /\ NoPageHasSummary
    /\ \A k \in 1..Len(pages_data) : "page_summary" \in pages_data[k].keys
    /\ chapter_info.chapter_summary = NoSummariesAnalysis

Visuals ==
    UNION {{<<k, i>> : i \in 1..Len(pages_data[k].images)} : k \in 1..Len(pages_data)}

VisualOf(v) == pages_data[v[1]].images[v[2]]

IntegrationDone ==
    \/ pc \in {"summarize", "analyze", "extract_topics", "assign", "save"}
    \/ pc = "done" /\ failure \in {"none", "save"}

\* the id "chitra_<page>_<position>" written out for the pages and positions
\* of the model
ExpectedReferenceId(v) ==
    <<"c", "h", "i", "t", "r", "a", "_",
      DecimalChars[pages_data[v[1]].page_number + 1], "_", DecimalChars[v[2] + 1]>>

\* C13: no visual has a reference_id before the integration stage; the
\* stage gives every visual of every page its id, made of the page number
\* and the visual's position (from 1) in the page's list; no later step
\* changes an id, and no two visuals of the document have the same id.
C13_ReferenceIdsAssignedOnce ==
    /\ [](\A v \in Visuals :
            /\ ~IntegrationDone => "reference_id" \notin VisualOf(v).keys
            /\ IntegrationDone =>
                  /\ "reference_id" \in VisualOf(v).keys
                  /\ VisualOf(v).reference_id = ExpectedReferenceId(v)
            /\ \A w \in Visuals :
                  (v # w /\ "reference_id" \in VisualOf(v).keys
                         /\ "reference_id" \in VisualOf(w).keys)
                     => VisualOf(v).reference_id # VisualOf(w).reference_id)
    /\ [][\A v \in Visuals :
             "reference_id" \in VisualOf(v).keys
                => (/\ v[1] <= Len(pages_data')
                    /\ v[2] <= Len(pages_data'[v[1]].images)
                    /\ pages_data'[v[1]].images[v[2]] .reference_id
                          = VisualOf(v).reference_id)]_vars

\* a saved document with two visuals on page 1 and one on page 2
C13_Witness ==
    /\ pc = "done"
    /\ result = "output_file"
    /\ Len(pages_data) = 2
    /\ Len(pages_data[1].images) = 2
    /\ Len(pages_data[2].images) = 1
    /\ pages_data[1].images[2].reference_id = <<"c", "h", "i", "t", "r", "a", "_", "1", "_", "2">>
    /\ pages_data[2].images[1].reference_id = <<"c", "h", "i", "t", "r", "a", "_", "2", "_", "1">>

StageRank(stage) ==
    CASE stage = "convert" -> 0
      [] stage = "extract" -> 1
      [] stage = "describe" -> 2
      [] stage = "integrate" -> 3
      [] stage = "summarize" -> 4
      [] stage = "analyze" -> 5
      [] stage = "extract_topics" -> 6
      [] stage = "assign" -> 7
      [] stage = "save" -> 8
      [] stage = "done" -> 9

\* the stage that is being left has dealt with every page
StageComplete ==
    CASE pc = "extract" -> Len(pages_data) = rendered_images
      [] pc = "describe" ->
            \A v \in Visuals : "educational_description" \in VisualOf(v).keys
      [] pc = "summarize" ->
            \A k \in 1..Len(pages_data) : "page_summary" \in pages_data[k].keys
      [] pc = "assign" ->
            \A k \in 1..Len(pages_data) : "assigned_topics" \in pages_data[k].keys
      [] OTHER -> TRUE

\* a step inside a stage deals with the page at the loop position and
\* moves the position forward by at most one
OnePageInOrder ==
    /\ page_idx' \in {page_idx, page_idx + 1}
    /\ IF pc = "extract"
       THEN /\ Len(pages_data') = Len(pages_data) + 1
            /\ SubSeq(pages_data', 1, Len(pages_data)) = pages_data
            /\ pages_data'[Len(pages_data')].page_number = page_idx
            /\ page_idx' = page_idx + 1
       ELSE /\ Len(pages_data') = Len(pages_data)
            /\ \A k \in 1..Len(pages_data) :
                  k # page_idx => pages_data'[k] = pages_data[k]

\* C14: the stages of process_pdf run in the order extraction, description,
\* integration, summarization, chapter analysis, topic extraction, topic
\* assignment, save; a stage is left only when it has dealt with every page,
\* no stage is entered a second time, and inside a stage the pages are
\* taken one at a time in page order.
C14_StagesInOrder ==
    [][/\ StageRank(pc') >= StageRank(pc)
       /\ (pc' # pc /\ pc' # "done") =>
             /\ StageComplete
             /\ \/ StageRank(pc') = StageRank(pc) + 1
                \/ pc = "extract" /\ pc' = "integrate" /\ TotalImages(pages_data) = 0
       /\ (pc' = pc /\ pc \in {"extract", "describe", "summarize", "assign"})
             => OnePageInOrder]_vars

\* a run through all eight stages on two pages with visuals
C14_Witness ==
    /\ pc = "done"
    /\ result = "output_file"
    /\ Len(pages_data) = 2
    /\ \A k \in 1..2 : /\ pages_data[k].images # <<>>
                       /\ pages_data[k].page_summary = "summary"
                       /\ pages_data[k].assigned_topics = <<2, 1>>
    /\ Len(topics_list) = 3

\* C15: when the extraction gives no page, process_pdf returns no output
\* file, runs no later stage and makes no request to the generative
\* collaborator; when the output cannot be written it returns no output
\* file either; in both cases it returns instead of raising.
C15_DocumentLevelFailures ==
    /\ failure = "no pages" =>
          /\ pc = "done" /\ result = "None"
          /\ pages_data = <<>>
          /\ requests.gemini_api = 0 /\ api_calls.gemini_api = 0
          /\ chapter_info.chapter_summary = <<>> /\ topics_list = <<>>
    /\ failure = "save" => (pc = "done" /\ result = "None")
    /\ pc \in {"describe", "integrate", "summarize", "analyze", "extract_topics",
               "assign", "save"} => pages_data # <<>>
    /\ result = "output_file" => (pages_data # <<>> /\ failure = "none")
    /\ pc = "done" <=> result \in {"None", "output_file"}

\* a PDF that renders to no page image
C15_Witness ==
    /\ pc = "done"
    /\ failure = "no pages"
    /\ rendered_images = 0
    /\ result = "None"

\* the pages recorded for a non-success answer of the vision collaborator
ErrorPages(pages) ==
    {i \in 1..Len(pages) :
        "error" \in pages[i].keys /\ pages[i].error = "Vision API error"}

\* C18: a page the vision collaborator answered with a non-success status
\* is recorded with empty text, no visual and an error marker, extraction
\* goes on with the next page, and the page stays in the page list through
\* every later stage, up to the document that is saved.
C18_DegradedPageKept ==
    /\ [](\A i \in ErrorPages(pages_data) :
            /\ pages_data[i].page_number = i
            /\ pages_data[i].text = <<>>
            /\ pages_data[i].images = <<>>)
    /\ [][/\ ErrorPages(pages_data) \subseteq ErrorPages(pages_data')
          /\ (/\ Len(pages_data') = Len(pages_data) + 1
              /\ Len(pages_data') \in ErrorPages(pages_data'))
             => (pc' = "extract" /\ page_idx' = page_idx + 1 /\ result' = "running")]_vars

\* page 1 was degraded, page 2 was extracted after it, the document is saved
C18_Witness ==
    /\ pc = "done"
    /\ result = "output_file"
    /\ Len(pages_data) = 2
    /\ ErrorPages(pages_data) = {1}
    /\ pages_data[2].text # <<>>

\* a description request was made for the visual at the loop position and
\* no answer was counted: the request failed
DescriptionRequestFailed ==
    /\ AtImage
    /\ requests'.gemini_api = requests.gemini_api + 1
    /\ api_calls' = api_calls

HasDescription(image) ==
    /\ "educational_description" \in image.keys
    /\ image.educational_description # <<>>

\* C19: a failed description request gives its visual the sentinel
\* description and the stage goes on with the next visual; once the
\* description stage is over every visual of every page has a description,
\* so integration and summarization find one on each visual.
C19_FailedDescriptionGetsSentinel ==
    /\ [][DescriptionRequestFailed =>
            /\ pages_data'[page_idx].images[image_idx].educational_description
                  = DescriptionNotAvailable
            /\ HasDescription(pages_data'[page_idx].images[image_idx])
            /\ pc' = "describe" /\ page_idx' = page_idx /\ image_idx' = image_idx + 1
            /\ result' = "running"]_vars
    /\ []((\/ pc \in {"integrate", "summarize", "analyze", "extract_topics",
                      "assign", "save"}
           \/ pc = "done" /\ result = "output_file")
          => \A v \in Visuals : HasDescription(VisualOf(v)))

\* on one page the first visual got the sentinel, the next one a generated
\* description, and the later stages ran
C19_Witness ==
    /\ pc = "done"
    /\ result = "output_file"
    /\ \E v, w \in Visuals :
          /\ v[1] = w[1] /\ v[2] + 1 = w[2]
          /\ VisualOf(v).educational_description = DescriptionNotAvailable
          /\ HasDescription(VisualOf(w))
          /\ VisualOf(w).educational_description # DescriptionNotAvailable

\* C21: the two call counters only grow over a run: a step leaves a counter
\* as it is or adds exactly one to it, the vision counter changes only in a
\* step that calls the vision collaborator, the generative counter only in
\* a step that calls the generative collaborator and not the vision one.
C21_CountersMonotonic ==
    [][/\ api_calls'.vision_api \in {api_calls.vision_api, api_calls.vision_api + 1}
       /\ api_calls'.gemini_api \in {api_calls.gemini_api, api_calls.gemini_api + 1}
       /\ api_calls'.vision_api # api_calls.vision_api =>
             /\ requests'.vision_api = requests.vision_api + 1
             /\ api_calls'.gemini_api = api_calls.gemini_api
       /\ api_calls'.gemini_api # api_calls.gemini_api =>
             /\ requests'.gemini_api = requests.gemini_api + 1
             /\ requests'.vision_api = requests.vision_api
             /\ api_calls'.vision_api = api_calls.vision_api]_vars

\* a whole run in which both counters have grown several times
C21_Witness ==
    /\ pc = "done"
    /\ result = "output_file"
    /\ api_calls.vision_api = 2
    /\ api_calls.gemini_api >= 4

\* the extraction stage has run to its end
ExtractionOver ==
    \/ pc \in {"describe", "integrate", "summarize", "analyze", "extract_topics",
               "assign", "save"}
    \/ pc = "done" /\ failure \in {"none", "save"}

PageNumbers(pages) == [k \in 1..Len(pages) |-> pages[k].page_number]

\* C23: once the extraction stage is over the page list has one record per
\* rendered page image, degraded pages included, and the i-th record has
\* page_number i (1-based, so unique and increasing); during extraction
\* records are only appended, and no later stage adds, deletes or reorders
\* page records.
C23_OneRecordPerPage ==
    /\ []((ExtractionOver /\ rendered_images > 0) =>
            /\ Len(pages_data) = rendered_images
            /\ \A i \in 1..Len(pages_data) : pages_data[i].page_number = i)
    /\ [][IF pc = "extract"
          THEN /\ Len(pages_data') \in {Len(pages_data), Len(pages_data) + 1}
               /\ SubSeq(pages_data', 1, Len(pages_data)) = pages_data
          ELSE PageNumbers(pages_data') = PageNumbers(pages_data)]_vars

\* two rendered pages, the first one degraded, both numbered in the saved list
C23_Witness ==
    /\ pc = "done"
    /\ result = "output_file"
    /\ rendered_images = 2
    /\ PageNumbers(pages_data) = <<1, 2>>
    /\ "error" \in pages_data[1].keys
    /\ pages_data[1].text = <<>>
    /\ "assigned_topics" \in pages_data[2].keys

\* the visual objects of a page without the reference ids
DetectedObjects(page) ==
    [i \in 1..Len(page.images) |->
        <<page.images[i].object_type, page.images[i].detection_method,
          page.images[i].educational_description>>]

\* C26: the integration stage leaves on every page the text it found
\* followed by one reference line per visual object of the page, the k-th
\* line with ordinal k and the description of the k-th object; the text of
\* a page without visual objects is unchanged, and the number and order of
\* the visual objects of a page do not change.
C26_ReferenceLinesAppended ==
    [][pc = "integrate" =>
          /\ Len(pages_data') = Len(pages_data)
          /\ \A k \in 1..Len(pages_data) :
                LET before == pages_data[k]
                    after == pages_data'[k]
                    n == Len(before.images)
                IN /\ Len(after.text) = Len(before.text) + n
                   /\ SubSeq(after.text, 1, Len(before.text)) = before.text
                   /\ \A i \in 1..n :
                         after.text[Len(before.text) + i] =
                             [kind |-> "ref", ordinal |-> i,
                              description |-> before.images[i].educational_description]
                   /\ DetectedObjects(after) = DetectedObjects(before)]_vars

\* after the stage one page has its text and the lines of its two visual
\* objects, another page without visual objects has its text alone
C26_Witness ==
    /\ pc = "summarize"
    /\ \E k, j \in 1..Len(pages_data) :
          /\ Len(pages_data[k].images) = 2
          /\ Len(pages_data[k].text) >= 3
          /\ pages_data[k].text[1].kind = "ocr"
          /\ pages_data[k].text[Len(pages_data[k].text) - 1].ordinal = 1
          /\ pages_data[k].text[Len(pages_data[k].text)] =
                RefLine(2, pages_data[k].images[2].educational_description)
          /\ pages_data[j].images = <<>>
          /\ pages_data[j].text # <<>>
          /\ \A i \in 1..Len(pages_data[j].text) : pages_data[j].text[i].kind = "ocr"

\* the name holds an English keyword, whatever the case, or a Gujarati one
HoldsKeyword(object_name) ==
    \/ \E keyword \in english_mathematical_keywords :
          \E i \in 0..(Len(object_name) - Len(keyword)) :
             \A j \in 1..Len(keyword) : LowerChar(object_name[i + j]) = keyword[j]
    \/ \E keyword \in gujarati_mathematical_keywords :
          \E i \in 1..Len(object_name) : <<object_name[i]>> = keyword

\* the names of the visuals of a page that come from object localization
RetainedNames(page) ==
    LET kept == SelectSeq(page.images,
                    LAMBDA image : image.detection_method = "vision_object_detection")
    IN [i \in 1..Len(kept) |-> kept[i].object_type]

\* C27: of the localized objects the vision collaborator returned for a
\* page, the visual list keeps, in order, exactly those whose name holds a
\* keyword (English, case-insensitive, or Gujarati): `triangle outline' is
\* kept, a name without keyword never is.
C27_KeywordFilter ==
    pages_data # <<>> =>
        LET page == pages_data[Len(pages_data)]
        IN /\ RetainedNames(page) = SelectSeq(localized_objects, HoldsKeyword)
           /\ \A i \in 1..Len(localized_objects) :
                 localized_objects[i] = TriangleOutline =>
                     \E k \in 1..Len(page.images) :
                         /\ page.images[k].object_type = TriangleOutline
                         /\ page.images[k].detection_method = "vision_object_detection"

\* the answer named `triangle outline' and `person': the page keeps the
\* first and not the second
C27_Witness ==
    /\ pages_data # <<>>
    /\ localized_objects = <<TriangleOutline, Person>>
    /\ RetainedNames(pages_data[Len(pages_data)]) = <<TriangleOutline>>

\* a line without its leading marker: the digits, dots, dashes and blanks
\* it begins with
WithoutMarker(line) ==
    LET RECURSIVE Rest(_)
        Rest(t) == IF t # <<>> /\ (IsDigit(Head(t)) \/ Head(t) \in {".", "-", " "})
                   THEN Rest(Tail(t)) ELSE t
    IN Strip(Rest(Strip(line)))

NumberedOrBulleted(line) ==
    LET l == Strip(line)
    IN l # <<>> /\ (IsDigit(l[1]) \/ (Len(l) >= 2 /\ l[1] = "-" /\ l[2] = " "))

\* the topics the lines of a summary give, in order
TopicLines(summary) ==
    LET lines == Split(summary, "\n", <<>>)
        kept == SelectSeq(lines,
                    LAMBDA line : NumberedOrBulleted(line) /\ Len(WithoutMarker(line)) > 5)
    IN [i \in 1..Len(kept) |-> WithoutMarker(kept[i])]

\* C28 (as claimed): the topic list is made, in order, of exactly the lines
\* of the chapter summary that are numbered or bulleted and longer than 5
\* characters once the leading marker is stripped; with no such line (as
\* for the two sentinels of the chapter analysis) it is the three default
\* topics, so topic assignment never gets an empty list.
C28_TopicsFromSummary ==
    pc \in {"assign", "save"} =>
        /\ topics_list # <<>>
        /\ topics_list =
              (IF TopicLines(chapter_info.chapter_summary) = <<>> THEN default_topics
               ELSE TopicLines(chapter_info.chapter_summary))

\* C29 (as claimed): at every point of a run the generative call counter is
\* the number of requests made so far to the generative collaborator, the
\* visual-detection pass, descriptions, summaries, chapter analysis and
\* topic assignment all counted, so the count saved with the document is
\* the number of generative calls of the run.
C29_GenerativeCounterExact == api_calls.gemini_api = requests.gemini_api

\* C30 (as claimed): a page record of the extraction stage has an error
\* marker only when its text is empty; when one of the two text detection
\* modes gave a text for the page, the page has no error marker.
C30_ErrorMarkerOnlyWithoutText ==
    \A k \in 1..Len(pages_data) :
        "error" \in pages_data[k].keys => pages_data[k].text = <<>>

(***************************************************************************)
(* Claims on the extraction loops                                          *)
(***************************************************************************)
ProcessedPageNumbers == {json_pages[k].page_number : k \in 1..(page_pos - 1)}

\* C4: every record either extractor returns carries the number of the page
\* it was extracted from, the chapter name, the extraction time, the
\* extractor's source tag and the status inactive, whatever the collaborator
\* wrote in those fields.
C4_RecordsCarryMetadata ==
    \A i \in 1..Len(all_records) :
        /\ {"page_number", "chapter", "extracted_at", "source", "status"}
              \subseteq all_records[i].keys
        /\ all_records[i].page_number \in ProcessedPageNumbers
        /\ all_records[i].chapter = chapter_name
        /\ all_records[i].extracted_at = Now
        /\ all_records[i].source = extractor
        /\ all_records[i].status = "inactive"

\* C5: a page whose text is shorter than 100 characters adds no record and
\* causes no collaborator call: the step over such a page leaves the result
\* and the call counter as they are.
C5_ShortPagesSkipped ==
    [][(InPageLoop /\ json_pages[page_pos].text.length < 100)
          => (all_records' = all_records /\ extractor_calls' = extractor_calls)]_vars

\* the loop has passed a page of 99 characters after a page that was sent
\* to the collaborator and gave records
C5_Witness ==
    /\ page_pos = 3
    /\ json_pages[1].text.length = 100
    /\ json_pages[2].text.length = 99
    /\ extractor_calls = 1
    /\ Len(all_records) = 2

\* a step of the page loop in which the collaborator has answered
AnswerReceived == InPageLoop /\ extractor_calls' = extractor_calls + 1

WellFormedItems(items) == {i \in 1..Len(items) : items[i].is_dict}

\* C16: when the array the collaborator returned for a page holds an item
\* that is no object, the item is left out and the other records of the
\* page are still added to the result; no record of this or of another
\* page is lost.
C16_MalformedItemsSkipped ==
    [][(AnswerReceived /\ last_response'.kind = "array") =>
          /\ Len(all_records') =
                Len(all_records) + Cardinality(WellFormedItems(last_response'.items))
          /\ SubSeq(all_records', 1, Len(all_records)) = all_records]_vars

\* C17: an answer that is empty, no JSON, or a JSON value other than an
\* array, in a code fence or not, gives no record for the page and raises
\* nothing: the result stays as it is, the delay follows and the loop goes
\* on to the next page.
C17_OtherShapesGiveNoRecords ==
    [][(AnswerReceived
          /\ last_response'.kind \in {"empty", "malformed", "object", "scalar"}) =>
          /\ all_records' = all_records
          /\ page_pos' = page_pos + 1
          /\ extract_log' = extract_log \o <<"call", "delay">>]_vars

\* page 1 gave a record, page 2 was answered with a JSON object in a fence
C17_Witness ==
    /\ page_pos = 3
    /\ extractor_calls = 2
    /\ last_response = [fence |-> "json", kind |-> "object", items |-> <<>>]
    /\ Len(all_records) = 1
    /\ extract_log = <<"call", "delay", "call", "delay">>

\* C20: in both extraction loops every page for which a request was sent is
\* followed by one delay, whether or not it gave records, so that a delay
\* lies between any two consecutive requests of the loop.
C20_DelayAfterEachRequest ==
    \A i \in 1..Len(extract_log) :
        extract_log[i] = "call" =>
            i < Len(extract_log) /\ extract_log[i + 1] = "delay"

(***************************************************************************)
(* Claims on the visual classifier                                         *)
(***************************************************************************)
KeywordGroups ==
    << [keywords |-> {kw_koshtak, kw_table}, category |-> "koshtak"],
       [keywords |-> {kw_aakruti, kw_aalekh, kw_graph}, category |-> "aakruti/aalekh"],
       [keywords |-> {kw_chitra, kw_diagram}, category |-> "chitra"],
       [keywords |-> {kw_rekha, kw_line}, category |-> "rekhakruti"] >>

GroupsOccurring ==
    {g \in 1..Len(KeywordGroups) :
        \E keyword \in KeywordGroups[g].keywords :
            IsSubstring(keyword, LowerChars(image_description))}

\* C11: the classifier returns exactly one of the five categories for every
\* description: the category of the first group, in the order table,
\* figure/graph, diagram, line, one of whose keywords occurs in the
\* description without regard to case, and the generic figure when none does.
C11_FirstMatchingGroup ==
    visual_category # "none" =>
        /\ visual_category \in {"koshtak", "aakruti/aalekh", "chitra", "rekhakruti", "aakruti"}
        /\ GroupsOccurring = {} => visual_category = "aakruti"
        /\ \A g \in GroupsOccurring :
              (\A h \in GroupsOccurring : g <= h)
                  => visual_category = KeywordGroups[g].category

\* a description in which a graph keyword comes before a table keyword in
\* capitals: the table group wins
C11_Witness ==
    /\ image_description = <<"G", "R", "A", "P", "H", "T", "a", "b", "l", "e">>
    /\ visual_category = "koshtak"
    /\ GroupsOccurring = {1, 2}

(***************************************************************************)
(* Claims on the relevance score                                           *)
(***************************************************************************)
\* the structured reference tokens of a text: a type word and its number
RefTokens(text) ==
    { <<text[i], text[i + 1]>> : i \in
        {j \in 1..(Len(text) - 1) :
            text[j] \in RefTypeWords /\ text[j + 1] \in NumberWords} }

SharedRefTokens(text, desc) == RefTokens(text) \cap RefTokens(desc)

SharedKeywords(text, desc) ==
    {kw \in Range(math_keywords) :
        Contains(LowerText(text), kw) /\ Contains(LowerText(desc), kw)}

BothHaveEquation(text, desc) == SearchEquation(text) /\ SearchEquation(desc)

\* C7: the relevance score lies in [0, 1] (0..10 tenths), however many
\* keyword, reference and equation signals match.
C7_ScoreInUnitInterval == score \in 0..10

\* C7 witness: the signals of the pair add up to more than 1.0 and the
\* score returned is the cap.
C7_Witness ==
    /\ RawScore(example_text, image_desc) > 10
    /\ score = 10

\* C8 (as claimed): below the cap, what the score holds beyond the keyword
\* and equation parts is 0.4 for each distinct token <type-word, number>
\* occurring in both texts, type word and number both equal.
C8_RefPartCountsSharedTokens ==
    RawScore(example_text, image_desc) <= 10 =>
        score - 2 * Cardinality(SharedKeywords(example_text, image_desc))
              - (IF BothHaveEquation(example_text, image_desc) THEN 3 ELSE 0)
        = 4 * Cardinality(SharedRefTokens(example_text, image_desc))

\* C9 (as claimed): score = min(1.0, 0.2*k + 0.4*r + 0.3*e), k the domain
\* keywords in both texts, r the shared structured reference tokens, e the
\* equation pattern in both.
C9_ScoreFormula ==
    score = Min(10,
                2 * Cardinality(SharedKeywords(example_text, image_desc))
                + 4 * Cardinality(SharedRefTokens(example_text, image_desc))
                + (IF BothHaveEquation(example_text, image_desc) THEN 3 ELSE 0))

\* a text holds a linear equation in one variable: a variable, an operator,
\* an integer, an equals sign, an integer
HasOneVariableEquation(text) ==
    \E k \in 1..Len(text) :
        \E i \in 1..Len(Spelling(text[k])) : EquationPatternOneVariableAt(Spelling(text[k]), i)

\* what the score holds beyond the keyword part and the reference part
EquationPart(text, desc) ==
    RawScore(text, desc)
    - 2 * Cardinality(SharedKeywords(text, desc))
    - 4 * Cardinality(common_refs(text, desc))

\* C24 (as claimed): the score holds the flat 0.3 whenever the passage and
\* the description both hold a linear equation in one variable, such as
\* 2x+3=7, and holds it at most once for a pair.
C24_EquationBonus ==
    /\ EquationPart(example_text, image_desc) \in {0, 3}
    /\ (HasOneVariableEquation(example_text) /\ HasOneVariableEquation(image_desc)) =>
          /\ EquationPart(example_text, image_desc) = 3
          /\ score = Min(10, RawScore(example_text, image_desc))
          /\ score >= 3

\* C10: adding a further phrase (keyword, reference token, equation) to the
\* passage or to the description never lowers the score of the pair.
C10_ScoreMonotone == [][score' >= score]_vars

\* C10 witness: signals were added on both sides and the score has grown
\* to at least 0.6.
C10_Witness ==
    /\ example_phrases >= 1
    /\ image_phrases >= 1
    /\ score >= 6

====
